---- MODULE Spec2Model ----
(***************************************************************************)
(* Schema inference (Value::parse, parse_list, List::parse, Group::parse)  *)
(* and reader construction (Value::reader, List::reader, Group::reader) of *)
(* the record module, as pure operators over bounded file-format type      *)
(* trees, driven by a state machine that draws a type tree and applies the *)
(* operations to it. Further specifications draw the dynamic values       *)
(* (Group, Value: accessors, conversion, downcast, equality, hash) and the *)
(* texts and groups of the display module (PadAdapter,                     *)
(* DisplaySchemaGroup).                                                    *)
(*                                                                         *)
(* Option<T> is modelled as a sequence: None is << >>, Some(x) is <<x>>.   *)
(* A Result is a record with r in {"Ok", "Err", "Panic"}: "Panic" is the   *)
(* unwinding of unimplemented!, unwrap() on None/Err or a failed assert!.  *)
(***************************************************************************)
EXTENDS Integers, Sequences, FiniteSets, TLC

VARIABLES node, op, arg, res, rdr, this

vars == <<node, op, arg, res, rdr, this>>

None == << >>

Some(x) == <<x>>

\* ------------------------------------------------------------------------
\* Bounds of the model
\* ------------------------------------------------------------------------

\* Largest number of group levels above a leaf in a drawn type tree.
MaxDepth == 2

\* Largest number of fields of a drawn group.
MaxFields == 2

\* ------------------------------------------------------------------------
\* File-format type trees (the `schema: &Type` argument of parse)
\* ------------------------------------------------------------------------

Repetitions == {"Required", "Optional", "Repeated"}

PrimitiveType(name, repetition, physical, logical, precision, scale, length) ==
    [kind |-> "primitive", name |-> name, repetition |-> repetition,
     physical |-> physical, logical |-> logical,
     precision |-> precision, scale |-> scale, length |-> length]

GroupType(name, repetition, logical, fields) ==
    [kind |-> "group", name |-> name, repetition |-> repetition,
     logical |-> logical, fields |-> fields]

is_primitive(t) == t.kind = "primitive"

is_group(t) == t.kind = "group"

\* ------------------------------------------------------------------------
\* Results
\* ------------------------------------------------------------------------

Ok(name, schema) == [r |-> "Ok", name |-> name, schema |-> schema]

Err(msg) == [r |-> "Err", msg |-> msg]

Panic(msg) == [r |-> "Panic", msg |-> msg]

\* ------------------------------------------------------------------------
\* Value::parse, primitive branch (value.rs 1501-1682)
\* ------------------------------------------------------------------------

Atom(s) == [s |-> s]

\* i32 -> u32 / usize: try_into() fails on a negative value.
try_into(n) == IF n < 0 THEN None ELSE Some(n)

\* The length of a ByteArraySchema: Some(type_length) exactly for a
\* FixedLenByteArray; unwrap of a failed conversion panics.
ByteArrayLenOk(t) ==
    t.physical = "FixedLenByteArray" => try_into(t.length) # None

ByteArrayLen(t) ==
    IF t.physical = "FixedLenByteArray" THEN try_into(t.length) ELSE None

WithLen(s, t) ==
    IF ByteArrayLenOk(t)
    THEN Ok(t.name, [s |-> s, len |-> ByteArrayLen(t)])
    ELSE Panic("unwrap on Err")

DecimalOf(backing, t) ==
    IF try_into(t.precision) # None /\ try_into(t.scale) # None
    THEN Ok(t.name, [s |-> "Decimal", backing |-> backing,
                     precision |-> t.precision, scale |-> t.scale])
    ELSE Panic("unwrap on Err")

DecimalArrayOf(t) ==
    IF ~ByteArrayLenOk(t) \/ try_into(t.precision) = None \/ try_into(t.scale) = None
    THEN Panic("unwrap on Err")
    ELSE Ok(t.name, [s |-> "Decimal", backing |-> "Array", len |-> ByteArrayLen(t),
                     precision |-> t.precision, scale |-> t.scale])

IsByteArray(p) == p \in {"ByteArray", "FixedLenByteArray"}

\* Fallbacks for an unrecognised logical type (value.rs 1659-1679).
FallbackSchema(t) ==
    CASE t.physical = "Boolean" -> Ok(t.name, Atom("Bool"))
      [] t.physical = "Int32" -> Ok(t.name, Atom("I32"))
      [] t.physical = "Int64" -> Ok(t.name, Atom("I64"))
      [] t.physical = "Int96" -> Ok(t.name, [s |-> "Timestamp", unit |-> "Int96"])
      [] t.physical = "Float" -> Ok(t.name, Atom("F32"))
      [] t.physical = "Double" -> Ok(t.name, Atom("F64"))
      [] IsByteArray(t.physical) -> WithLen("ByteArray", t)

\* The match on (physical type, logical type), first matching arm wins.
PrimitiveSchema(t) ==
    LET p == t.physical
        l == t.logical
    IN  CASE p = "Boolean" /\ l = "None" -> Ok(t.name, Atom("Bool"))
          [] p = "Int32" /\ l = "Uint8" -> Ok(t.name, Atom("U8"))
          [] p = "Int32" /\ l = "Int8" -> Ok(t.name, Atom("I8"))
          [] p = "Int32" /\ l = "Uint16" -> Ok(t.name, Atom("U16"))
          [] p = "Int32" /\ l = "Int16" -> Ok(t.name, Atom("I16"))
          [] p = "Int32" /\ l = "Uint32" -> Ok(t.name, Atom("U32"))
          [] p = "Int32" /\ l \in {"Int32", "None"} -> Ok(t.name, Atom("I32"))
          [] p = "Int32" /\ l = "Date" -> Ok(t.name, Atom("Date"))
          [] p = "Int32" /\ l = "TimeMillis" ->
                Ok(t.name, [s |-> "Time", unit |-> "Millis"])
          [] p = "Int32" /\ l = "Decimal" -> DecimalOf("Int32", t)
          [] p = "Int64" /\ l = "Uint64" -> Ok(t.name, Atom("U64"))
          [] p = "Int64" /\ l \in {"Int64", "None"} -> Ok(t.name, Atom("I64"))
          [] p = "Int64" /\ l = "TimeMicros" ->
                Ok(t.name, [s |-> "Time", unit |-> "Micros"])
          [] p = "Int64" /\ l = "TimestampMillis" ->
                Ok(t.name, [s |-> "Timestamp", unit |-> "Millis"])
          [] p = "Int64" /\ l = "TimestampMicros" ->
                Ok(t.name, [s |-> "Timestamp", unit |-> "Micros"])
          [] p = "Int64" /\ l = "Decimal" -> DecimalOf("Int64", t)
          [] p = "Int96" /\ l = "None" ->
                Ok(t.name, [s |-> "Timestamp", unit |-> "Int96"])
          [] p = "Float" /\ l = "None" -> Ok(t.name, Atom("F32"))
          [] p = "Double" /\ l = "None" -> Ok(t.name, Atom("F64"))
          [] IsByteArray(p) /\ l = "Utf8" -> WithLen("String", t)
          [] IsByteArray(p) /\ l = "Json" -> WithLen("Json", t)
          [] IsByteArray(p) /\ l = "Enum" -> WithLen("Enum", t)
          [] IsByteArray(p) /\ l = "None" -> WithLen("ByteArray", t)
          [] IsByteArray(p) /\ l = "Bson" -> WithLen("Bson", t)
          [] IsByteArray(p) /\ l = "Decimal" -> DecimalArrayOf(t)
          [] IsByteArray(p) /\ l = "Interval" ->
                Panic("not implemented")
          [] OTHER -> FallbackSchema(t)

\* ------------------------------------------------------------------------
\* Schemas
\* ------------------------------------------------------------------------

\* ListSchemaType::List(list_name, element_name), ::ListCompat(element_name)
\* and ::Repeated.
ListTypeList(list_name, element_name) ==
    [t |-> "List", list_name |-> list_name, element_name |-> element_name]

ListTypeCompat(element_name) == [t |-> "ListCompat", element_name |-> element_name]

ListTypeRepeated == [t |-> "Repeated"]

\* ListSchema(element, type)
ListSchema(elem, ty) == [elem |-> elem, ty |-> ty]

\* ValueSchema::List(Box<ListSchema>)
ValueList(ls) == [s |-> "List", elem |-> ls.elem, ty |-> ls.ty]

\* ValueSchema::Option(Box<OptionSchema>)
ValueOption(inner) == [s |-> "Option", inner |-> inner]

\* MapSchema(key, value, key_value_name, key_name, value_name)
MapSchema(key, value, kv_name, key_name, value_name) ==
    [key |-> key, value |-> value, kv_name |-> kv_name,
     key_name |-> key_name, value_name |-> value_name]

ValueMap(ms) ==
    [s |-> "Map", key |-> ms.key, value |-> ms.value, kv_name |-> ms.kv_name,
     key_name |-> ms.key_name, value_name |-> ms.value_name]

\* GroupSchema(Vec<ValueSchema>, LinkedHashMap<String, usize>): the map is the
\* sequence of its (name, ordinal) entries in insertion order.
GroupSchema(fields, lookup) == [fields |-> fields, lookup |-> lookup]

ValueGroup(gs) == [s |-> "Group", fields |-> gs.fields, lookup |-> gs.lookup]

LookupNames(lookup) == {lookup[i].name : i \in 1..Len(lookup)}

\* ------------------------------------------------------------------------
\* Inference
\* ------------------------------------------------------------------------

RECURSIVE ValueParse(_, _)
RECURSIVE parse_list(_)
RECURSIVE parse_map(_)
RECURSIVE ParseFields(_, _, _, _)
RECURSIVE ParseField(_, _, _, _, _)

\* LiftRepetition with the Required arm wrapping like the Optional one.
LiftRepetitionOptionalRequired(value, repetition) ==
    CASE repetition = "Optional" -> ValueOption(value)
      [] repetition = "Repeated" -> ValueList(ListSchema(value, ListTypeRepeated))
      [] repetition = "Required" -> ValueOption(value)

\* "Account for the repetition level" (value.rs 1726-1738).
LiftRepetition(value, repetition) ==
    CASE repetition = "Optional" -> ValueOption(value)
      [] repetition = "Repeated" -> ValueList(ListSchema(value, ListTypeRepeated))
      [] repetition = "Required" -> value

\* The three-level test of parse_list (list.rs 52-55).
IsThreeLevel(schema, sub_schema) ==
    /\ is_group(sub_schema)
    /\ Len(sub_schema.fields) = 1
    /\ sub_schema.name # "array"
    /\ sub_schema.name # schema.name \o "_tuple"

\* ListName with the name of the element compared, not that of the list.
ListNameComparesElement(sub_schema) ==
    IF sub_schema.name = "element" THEN None ELSE Some(sub_schema.name)

\* list.rs 58-62
ListName(sub_schema) ==
    IF sub_schema.name = "list" THEN None ELSE Some(sub_schema.name)

\* list.rs 63-67
ElementName(element) ==
    IF element.name = "element" THEN None ELSE Some(element.name)

\* The element of the legacy branch is parsed with Some(Repetition::Repeated)
\* (list.rs 77).
CompatRepetition == "Repeated"

\* T::parse(..)?.1 wrapped in a ListSchema (list.rs 69-73, 76-79): the
\* error, or panic, of the element's parse ends parse_list.
ListSchemaOf(name, e, ty) ==
    IF e.r = "Ok" THEN Ok(name, ListSchema(e.schema, ty)) ELSE e

\* parse_list::<Value> (list.rs 44-87): Ok carries a ListSchema.
parse_list(schema) ==
    IF /\ is_group(schema)
       /\ schema.logical = "List"
       /\ Len(schema.fields) = 1
       /\ schema.fields[1].repetition = "Repeated"
    THEN IF IsThreeLevel(schema, schema.fields[1])
         THEN ListSchemaOf(schema.name,
                           ValueParse(schema.fields[1].fields[1],
                                      Some(schema.fields[1].fields[1].repetition)),
                           ListTypeList(ListName(schema.fields[1]),
                                        ElementName(schema.fields[1].fields[1])))
         ELSE ListSchemaOf(schema.name,
                           ValueParse(schema.fields[1], Some(CompatRepetition)),
                           ListTypeCompat(schema.fields[1].name))
    ELSE Err("Couldn't parse List<T>")

\* The MapSchema of the parsed key and value, the wrapper names recorded
\* unless canonical.
MapSchemaOf(name, sub_schema, k, v) ==
    IF k.r # "Ok" THEN k
    ELSE IF v.r # "Ok" THEN v
    ELSE Ok(name,
            MapSchema(k.schema, v.schema,
                      IF sub_schema.name = "key_value" THEN None
                      ELSE Some(sub_schema.name),
                      IF sub_schema.fields[1].name = "key" THEN None
                      ELSE Some(sub_schema.fields[1].name),
                      IF sub_schema.fields[2].name = "value" THEN None
                      ELSE Some(sub_schema.fields[2].name)))

\* parse_map::<Value, Value>: a group annotated Map or MapKeyValue with
\* exactly one repeated child of group type with exactly two children, the
\* key required; the wrapper names are recorded unless canonical.
parse_map(schema) ==
    IF /\ is_group(schema)
       /\ schema.logical \in {"Map", "MapKeyValue"}
       /\ Len(schema.fields) = 1
       /\ is_group(schema.fields[1])
       /\ schema.fields[1].repetition = "Repeated"
       /\ Len(schema.fields[1].fields) = 2
       /\ schema.fields[1].fields[1].repetition = "Required"
    THEN MapSchemaOf(schema.name, schema.fields[1],
                     ValueParse(schema.fields[1].fields[1],
                                Some(schema.fields[1].fields[1].repetition)),
                     ValueParse(schema.fields[1].fields[2],
                                Some(schema.fields[1].fields[2].repetition)))
    ELSE Err("Couldn't parse Map<K, V>")

\* lookup.insert(name, ordinal) followed by assert!(x.is_none())
\* (value.rs 1711-1712, group.rs 79-80).
\* InsertOk with the assertion left out.
InsertOkAlways(lookup, name) == TRUE

\* assert!(x.is_none()) on the value insert returns (value.rs 1711-1712,
\* group.rs 79-80)
InsertOk(lookup, name) == name \notin LookupNames(lookup)

Insert(lookup, name, ordinal) == Append(lookup, [name |-> name, ord |-> ordinal])

\* The iterator over the fields of a group, collected into a
\* Result<Vec<ValueSchema>>: each field is parsed with its own repetition and
\* its name inserted with the ordinal lookup.len(); the first error ends the
\* collection (value.rs 1705-1716).
ParseFields(fields, i, schemas, lookup) ==
    IF i > Len(fields) THEN Ok("", GroupSchema(schemas, lookup))
    ELSE ParseField(fields, i, schemas, lookup,
                    ValueParse(fields[i], Some(fields[i].repetition)))

\* One step of the iterator: f is the parse of field i.
ParseField(fields, i, schemas, lookup, f) ==
    IF f.r # "Ok" THEN f
    ELSE IF ~InsertOk(lookup, f.name)
    THEN Panic("assertion failed: x.is_none()")
    ELSE ParseFields(fields, i + 1, Append(schemas, f.schema),
                     Insert(lookup, f.name, Len(lookup)))

\* HasRepetition with the guard dropped.
HasRepetitionAlways(repetition) == TRUE

\* repetition.is_some(), the guard of every branch of Value::parse
\* (value.rs 1502, 1685, 1692, 1699).
HasRepetition(repetition) == repetition # None

NoMatch == [r |-> "NoMatch"]

\* Result::map with the ValueSchema variant `variant` (value.rs 1688, 1695,
\* 1704): an error is kept.
MapOk(name, result, variant) ==
    IF result.r # "Ok" THEN result
    ELSE CASE variant = "List" -> Ok(name, ValueList(result.schema))
           [] variant = "Map" -> Ok(name, ValueMap(result.schema))
           [] variant = "Group" -> Ok(name, ValueGroup(result.schema))

\* Result::ok then Option::map (value.rs 1687-1688, 1694-1695): an error
\* becomes None.
OkMap(name, result, variant) ==
    IF result.r = "Err" THEN NoMatch ELSE MapOk(name, result, variant)

\* ListRule without the .ok(): the error of parse_list is kept.
ListRuleKeepsError(schema) == MapOk(schema.name, parse_list(schema), "List")

\* parse_list::<Value>(schema).ok().map(ValueSchema::List) (value.rs
\* 1686-1688): an error of parse_list is dropped.
ListRule(schema) == OkMap(schema.name, parse_list(schema), "List")

\* parse_map::<Value, Value>(schema).ok().map(ValueSchema::Map) (value.rs
\* 1693-1695)
MapRule(schema) == OkMap(schema.name, parse_map(schema), "Map")

\* GroupRule as the specification words it: only a group with at least one
\* field is a Group.
GroupRuleNeedsField(schema) ==
    IF is_group(schema) /\ Len(schema.fields) > 0
    THEN MapOk(schema.name, ParseFields(schema.fields, 1, << >>, << >>), "Group")
    ELSE NoMatch

\* "Try parsing as a group" (value.rs 1699-1719)
GroupRule(schema) ==
    IF is_group(schema)
    THEN MapOk(schema.name, ParseFields(schema.fields, 1, << >>, << >>), "Group")
    ELSE NoMatch

\* The core shape chosen by Value::parse before the repetition is accounted
\* for (value.rs 1499-1724): `value`, or the error or panic that ends parse.
PrimitiveRule(schema) ==
    IF is_primitive(schema) THEN PrimitiveSchema(schema) ELSE NoMatch

\* `if repetition.is_some() && value.is_none() { value = rule }`
Try(repetition, value, rule) ==
    IF HasRepetition(repetition) /\ value.r = "NoMatch" THEN rule ELSE value

\* value.ok_or_else(..)? (value.rs 1722-1724)
OkOrElse(value) ==
    IF value.r = "NoMatch" THEN Err("Can't parse value") ELSE value

ValueCore(schema, repetition) ==
    OkOrElse(Try(repetition,
                 Try(repetition,
                     Try(repetition,
                         Try(repetition, NoMatch, PrimitiveRule(schema)),
                         ListRule(schema)),
                     MapRule(schema)),
                 GroupRule(schema)))

\* The end of Value::parse (value.rs 1722-1740): the error returned, or the
\* repetition unwrapped and accounted for.
Lifted(name, value, repetition) ==
    IF value.r # "Ok" THEN value
    ELSE IF repetition = None THEN Panic("unwrap on None")
    ELSE Ok(name, LiftRepetition(value.schema, repetition[1]))

\* Value::parse (value.rs 1495-1741)
ValueParse(schema, repetition) ==
    Lifted(schema.name, ValueCore(schema, repetition), repetition)

\* ListParse with the element of a repeated field parsed as Repeated.
ListParseElementRepeated(schema, repetition) ==
    IF repetition = Some("Required")
    THEN parse_list(schema)
    ELSE IF repetition = Some("Repeated")
    THEN ListSchemaOf(schema.name, ValueParse(schema, Some("Repeated")),
                      ListTypeRepeated)
    ELSE Err("Couldn't parse List<T>")

\* <List<Value> as Record>::parse (list.rs 100-124): Ok carries a ListSchema.
ListParse(schema, repetition) ==
    IF repetition = Some("Required")
    THEN parse_list(schema)
    ELSE IF repetition = Some("Repeated")
    THEN ListSchemaOf(schema.name, ValueParse(schema, Some("Required")),
                      ListTypeRepeated)
    ELSE Err("Couldn't parse List<T>")

RECURSIVE EnumerateFields(_, _, _, _)

\* EnumerateField with the fields counted from one.
EnumerateFieldFromOne(fields, i, schemas, map, f) ==
    IF f.r # "Ok" THEN f
    ELSE IF ~InsertOk(map, f.name)
    THEN Panic("assertion failed: x.is_none()")
    ELSE EnumerateFields(fields, i + 1, Append(schemas, f.schema),
                         Insert(map, f.name, i))

\* One step of the iterator of Group::parse (group.rs 74-82): f is the parse
\* of the field enumerated as i - 1, the ordinal its name is inserted with.
EnumerateField(fields, i, schemas, map, f) ==
    IF f.r # "Ok" THEN f
    ELSE IF ~InsertOk(map, f.name)
    THEN Panic("assertion failed: x.is_none()")
    ELSE EnumerateFields(fields, i + 1, Append(schemas, f.schema),
                         Insert(map, f.name, i - 1))

\* The enumerated fields of a group, collected into a
\* Result<Vec<ValueSchema>> (group.rs 70-83): the first error ends the
\* collection.
EnumerateFields(fields, i, schemas, map) ==
    IF i > Len(fields) THEN Ok("", GroupSchema(schemas, map))
    ELSE EnumerateField(fields, i, schemas, map,
                        ValueParse(fields[i], Some(fields[i].repetition)))

\* Ok((schema.name().to_owned(), schema_)) (group.rs 83-85)
Named(name, g) == IF g.r = "Ok" THEN Ok(name, g.schema) ELSE g

\* <Group as Record>::parse (group.rs 61-91): Ok carries a GroupSchema.
GroupParse(schema, repetition) ==
    IF is_group(schema) /\ repetition = Some("Required")
    THEN Named(schema.name, EnumerateFields(schema.fields, 1, << >>, << >>))
    ELSE Err("Can't parse Group")

\* ------------------------------------------------------------------------
\* Reader construction
\* ------------------------------------------------------------------------

\* def_level and rep_level are i16.
I16Max == 32767

Inc16(x) == IF x = I16Max THEN -I16Max - 1 ELSE x + 1

\* What a reader constructor leaves behind: the reader, the column-path
\* stack as it is on return, and whether a pop found the stack empty.
Built(reader, path, underflow) ==
    [rdr |-> reader, path |-> path, underflow |-> underflow]

Push(path, name) == Append(path, name)

\* Pop with the pop left out.
PopMissing(path) == path

\* path.pop().unwrap()
Pop(path) == IF Len(path) = 0 THEN path ELSE SubSeq(path, 1, Len(path) - 1)

PopFails(path) == Len(path) = 0

\* The arguments of a call of T::reader.
Call(path, def_level, rep_level) ==
    [path |-> path, def_level |-> def_level, rep_level |-> rep_level]

RECURSIVE ValueReader(_, _, _, _)
RECURSIVE ListReader(_, _, _, _)
RECURSIVE GroupReaders(_, _, _, _, _, _)
RECURSIVE MapReader(_, _, _, _)

\* A reader of a primitive column: bound to the column at the current path,
\* it keeps the levels it is given.
LeafReader(schema, path, def_level, rep_level) ==
    Built([rd |-> "Leaf", s |-> schema.s,
           call |-> Call(path, def_level, rep_level)], path, FALSE)

\* <Option<Value> as Record>::reader: the inner reader at def_level + 1.
OptionReader(schema, path, def_level, rep_level) ==
    LET inner == ValueReader(schema.inner, path, Inc16(def_level), rep_level)
    IN  Built([rd |-> "Option", call |-> Call(path, Inc16(def_level), rep_level),
               reader |-> inner.rdr], inner.path, inner.underflow)

\* unwrap_or("list"), unwrap_or("element") (list.rs 137-139)
UnwrapOr(name, default) == IF name = None THEN default ELSE name[1]

\* ListSegments with the two segments of a three-level list swapped.
ListSegmentsSwapped(ty) ==
    CASE ty.t = "List" -> <<UnwrapOr(ty.element_name, "element"),
                            UnwrapOr(ty.list_name, "list")>>
      [] ty.t = "ListCompat" -> <<ty.element_name>>
      [] ty.t = "Repeated" -> << >>

\* The segments List::reader pushes for the element reader (list.rs 136-142,
\* 156-157, 170).
ListSegments(ty) ==
    CASE ty.t = "List" -> <<UnwrapOr(ty.list_name, "list"),
                            UnwrapOr(ty.element_name, "element")>>
      [] ty.t = "ListCompat" -> <<ty.element_name>>
      [] ty.t = "Repeated" -> << >>

RECURSIVE PopN(_, _)
PopN(path, n) == IF n = 0 THEN path ELSE PopN(Pop(path), n - 1)

RECURSIVE PopNFails(_, _)
PopNFails(path, n) ==
    IF n = 0 THEN FALSE ELSE PopFails(path) \/ PopNFails(Pop(path), n - 1)

\* <List<Value> as Record>::reader (list.rs 126-184): the schema is a
\* ListSchema.
ListReader(schema, path, def_level, rep_level) ==
    LET segments == ListSegments(schema.ty)
        pushed == path \o segments
        inner == ValueReader(schema.elem, pushed, Inc16(def_level), Inc16(rep_level))
    IN  Built([rd |-> "Repeated",
               call |-> Call(pushed, Inc16(def_level), Inc16(rep_level)),
               reader |-> inner.rdr],
              PopN(inner.path, Len(segments)),
              inner.underflow \/ PopNFails(inner.path, Len(segments)))

\* The zip of the names of the map with the field schemas, one child reader
\* each (group.rs 101-113): readers built so far, path, underflow so far.
GroupReaders(schema, i, readers, path, levels, underflow) ==
    IF i > Len(schema.lookup) \/ i > Len(schema.fields)
    THEN Built(readers, path, underflow)
    ELSE LET pushed == Push(path, schema.lookup[i].name)
             ret == ValueReader(schema.fields[i], pushed,
                                levels.def_level, levels.rep_level)
         IN  GroupReaders(schema, i + 1,
                          Append(readers,
                                 [call |-> Call(pushed, levels.def_level,
                                                levels.rep_level),
                                  reader |-> ret.rdr]),
                          Pop(ret.path), levels,
                          underflow \/ ret.underflow \/ PopFails(ret.path))

\* GroupReader with the children built one definition level deeper.
GroupReaderDeeper(schema, path, def_level, rep_level) ==
    LET built == GroupReaders(schema, 1, << >>, path,
                              [def_level |-> Inc16(def_level),
                               rep_level |-> rep_level],
                              FALSE)
    IN  Built([rd |-> "Group", readers |-> built.rdr, fields |-> schema.lookup],
              built.path, built.underflow)

\* <Group as Record>::reader (group.rs 93-118): the schema is a GroupSchema.
GroupReader(schema, path, def_level, rep_level) ==
    LET built == GroupReaders(schema, 1, << >>, path,
                              [def_level |-> def_level, rep_level |-> rep_level],
                              FALSE)
    IN  Built([rd |-> "Group", readers |-> built.rdr, fields |-> schema.lookup],
              built.path, built.underflow)

\* <Map<Value, Value> as Record>::reader: structurally a list of the group of
\* key and value, under the recorded wrapper names.
MapReader(schema, path, def_level, rep_level) ==
    LET kv == Push(path, UnwrapOr(schema.kv_name, "key_value"))
        kpath == Push(kv, UnwrapOr(schema.key_name, "key"))
        k == ValueReader(schema.key, kpath, Inc16(def_level), Inc16(rep_level))
        vpath == Push(Pop(k.path), UnwrapOr(schema.value_name, "value"))
        v == ValueReader(schema.value, vpath, Inc16(def_level), Inc16(rep_level))
    IN  Built([rd |-> "Map",
               key_call |-> Call(kpath, Inc16(def_level), Inc16(rep_level)),
               key_reader |-> k.rdr,
               value_call |-> Call(vpath, Inc16(def_level), Inc16(rep_level)),
               value_reader |-> v.rdr],
              Pop(Pop(v.path)),
              k.underflow \/ v.underflow)

\* Value::reader (value.rs 1743-1842): the ValueReader variant of the schema.
ValueReader(schema, path, def_level, rep_level) ==
    CASE schema.s = "List" ->
            ListReader(ListSchema(schema.elem, schema.ty), path, def_level, rep_level)
      [] schema.s = "Map" -> MapReader(schema, path, def_level, rep_level)
      [] schema.s = "Group" ->
            GroupReader(GroupSchema(schema.fields, schema.lookup), path,
                        def_level, rep_level)
      [] schema.s = "Option" -> OptionReader(schema, path, def_level, rep_level)
      [] OTHER -> LeafReader(schema, path, def_level, rep_level)

\* BoxSchema(schema) (boxed.rs 36-37)
BoxSchema(schema) == [s |-> "Box", inner |-> schema]

\* .map(|(name, schema)| (name, BoxSchema(schema))) (boxed.rs 37)
MapBox(result) ==
    IF result.r = "Ok" THEN Ok(result.name, BoxSchema(result.schema)) ELSE result

\* BoxReader(T::reader(..)) (boxed.rs 45-47)
Boxed(inner) ==
    Built([rd |-> "Box", reader |-> inner.rdr], inner.path, inner.underflow)

\* <Box<Value> as Record>::parse (boxed.rs 35-38)
BoxParse(schema, repetition) ==
    MapBox(ValueParse(schema, repetition))

\* BoxReader with a definition level added.
BoxReaderDeeper(schema, path, def_level, rep_level) ==
    Boxed(ValueReader(schema.inner, path, Inc16(def_level), rep_level))

\* <Box<Value> as Record>::reader (boxed.rs 40-49): the schema is a BoxSchema.
BoxReader(schema, path, def_level, rep_level) ==
    Boxed(ValueReader(schema.inner, path, def_level, rep_level))

\* ------------------------------------------------------------------------
\* Display of schemas
\* ------------------------------------------------------------------------

\* A text is a sequence of pieces: the newline, or a piece without a newline
\* in it. The text written is the concatenation of its pieces.
Newline == "\n"

\* A result of write_str: the writer after the call beside the fmt::Result.
WriteOk(writer) == [w |-> writer, r |-> "Ok"]

WriteErr(writer) == [w |-> writer, r |-> "Err"]

\* The formatter the text is written to: the text it has received, the
\* number of write_str calls made on it, and the call it fails, 0 for none.
Formatter(fail_at) ==
    [w |-> "Formatter", out |-> << >>, calls |-> 0, fail_at |-> fail_at]

\* fmt::Formatter::write_str: the text is appended, or, on the call that
\* fails, nothing is and the error is returned.
FormatterWrite(fmt, s) ==
    IF fmt.calls + 1 = fmt.fail_at
    THEN WriteErr([fmt EXCEPT !.calls = @ + 1])
    ELSE WriteOk([fmt EXCEPT !.calls = @ + 1, !.out = @ \o s])

\* PadAdapter::new (display.rs 59-64)
PadAdapter(fmt, on_newline) ==
    [w |-> "PadAdapter", fmt |-> fmt, on_newline |-> on_newline]

PadAdapterNew(fmt) == PadAdapter(fmt, FALSE)

\* Pad with half the width.
PadTwo == <<"  ">>

\* "    " (display.rs 74)
Pad == <<"    ">>

\* s.find('\n'): the offset of the first newline.
Find(s) ==
    IF \E i \in 1..Len(s) : s[i] = Newline
    THEN Some((CHOOSE i \in 1..Len(s) :
                  s[i] = Newline /\ \A j \in 1..(i - 1) : s[j] # Newline) - 1)
    ELSE None

\* Split that forgets the newline it has found.
SplitForgetsNewline(s) ==
    IF Find(s) # None
    THEN [on_newline |-> FALSE, split |-> Find(s)[1] + 1]
    ELSE [on_newline |-> FALSE, split |-> Len(s)]

\* `let split = match s.find('\n') { .. }` (display.rs 77-86): the length of
\* the piece written next, and on_newline as it is set.
Split(s) ==
    IF Find(s) # None
    THEN [on_newline |-> TRUE, split |-> Find(s)[1] + 1]
    ELSE [on_newline |-> FALSE, split |-> Len(s)]

RECURSIVE write_str(_, _)
RECURSIVE PadLoop(_, _)
RECURSIVE Continue(_)
RECURSIVE Iteration(_, _)
RECURSIVE Padded(_, _, _)
RECURSIVE Cut(_, _, _)

\* self.fmt.write_str(&s[..split])?; s = &s[split..] (display.rs 87-88)
Written(on_newline, rest, written) ==
    [w |-> PadAdapter(written.w, on_newline), r |-> written.r, s |-> rest]

Cut(fmt, s, at) ==
    Written(at.on_newline, SubSeq(s, at.split + 1, Len(s)),
            write_str(fmt, SubSeq(s, 1, at.split)))

\* `if self.on_newline { self.fmt.write_str("    ")?; }` (display.rs 73-75)
Padded(pad, s, padded) ==
    IF padded.r = "Err"
    THEN [w |-> PadAdapter(padded.w, pad.on_newline), r |-> "Err", s |-> s]
    ELSE Cut(padded.w, s, Split(s))

\* One iteration of the loop of PadAdapter::write_str (display.rs 73-88):
\* the adapter after it, the result so far and the text left to write.
Iteration(pad, s) ==
    Padded(pad, s, IF pad.on_newline THEN write_str(pad.fmt, Pad)
                   ELSE WriteOk(pad.fmt))

Continue(it) == IF it.r = "Err" THEN WriteErr(it.w) ELSE PadLoop(it.w, it.s)

\* `while !s.is_empty() { .. } Ok(())` (display.rs 72-91)
PadLoop(pad, s) ==
    IF s = << >> THEN WriteOk(pad) ELSE Continue(Iteration(pad, s))

\* write_str of a writer: the formatter, or a PadAdapter around a writer
\* (display.rs 71-92).
write_str(writer, s) ==
    IF writer.w = "Formatter" THEN FormatterWrite(writer, s)
    ELSE PadLoop(writer, s)

\* The text of a string: no piece for the empty string.
Str(x) == IF x = "" THEN << >> ELSE <<x>>

\* Repetition::to_string, as the canonical textual form writes it.
RepetitionToString(r) ==
    CASE r = "Required" -> <<"required">>
      [] r = "Optional" -> <<"optional">>
      [] r = "Repeated" -> <<"repeated">>

\* LogicalType::to_string, as the canonical textual form writes it.
LogicalToString(logical) ==
    CASE logical = "List" -> <<"LIST">>
      [] logical = "Map" -> <<"MAP">>

\* result.and_then(|_| fmt.write_str(s)) (display.rs 114-125, 159-161): after
\* an error nothing is written.
AndThen(result, s) ==
    IF result.r = "Err" THEN result ELSE write_str(result.w, s)

\* The builder: the formatter it writes to, the result so far, has_fields
\* (display.rs 99-103, 126-130).
Builder(result, has_fields) ==
    [fmt |-> result.w, result |-> result.r, has_fields |-> has_fields]

\* `(" (", logical, ")")` written when a logical type is given (display.rs
\* 119-124)
WithLogical(result, logical) ==
    IF logical = None THEN result
    ELSE AndThen(AndThen(AndThen(result, <<" (">>),
                         LogicalToString(logical[1])), <<")">>)

\* The first writes of new (display.rs 112-117)
Opening(r, fmt) ==
    IF r # None
    THEN AndThen(write_str(fmt, RepetitionToString(r[1])), <<" group ">>)
    ELSE write_str(fmt, <<"message ">>)

\* DisplaySchemaGroup::new (display.rs 106-131)
DisplaySchemaGroupNew(r, name, logical, fmt) ==
    Builder(AndThen(WithLogical(AndThen(Opening(r, fmt),
                                        Str(UnwrapOr(name, "<name>"))),
                                logical),
                    <<" {">>),
            FALSE)

\* The builder after the writer of field is dropped: the formatter is the
\* one the PadAdapter held.
Unpadded(written) == Builder([w |-> written.w.fmt, r |-> written.r], TRUE)

\* finish with the newline written whether the group has fields or not.
FinishAlwaysNewline(self) ==
    Builder(AndThen([w |-> self.fmt, r |-> self.result], <<Newline, "}">>),
            self.has_fields)

\* DisplaySchemaGroup::finish (display.rs 157-164): the builder after it,
\* its result the one returned.
Finish(self) ==
    Builder(AndThen([w |-> self.fmt, r |-> self.result],
                    IF self.has_fields THEN <<Newline, "}">> ELSE <<" }">>),
            self.has_fields)

RECURSIVE SchemaFmt(_, _, _, _)
RECURSIVE Fields(_, _, _)
RECURSIVE Field(_, _, _)
RECURSIVE FieldAlwaysWrites(_, _, _)
RECURSIVE Formatted(_, _, _)

\* writer.write_fmt(format_args!("\n{}", ..)) (display.rs 141-149): the
\* newline is written, then the field by its Schema::fmt, unless the newline
\* has failed.
Formatted(written, name, value) ==
    IF written.r = "Err" THEN written
    ELSE SchemaFmt(value, Some("Required"), name, written.w)

\* field without the latch: the field is written whatever the result so far.
FieldAlwaysWrites(self, name, value) ==
    Unpadded(Formatted(write_str(PadAdapterNew(self.fmt), <<Newline>>),
                       name, value))

\* DisplaySchemaGroup::field (display.rs 134-154)
Field(self, name, value) ==
    IF self.result = "Err" THEN [self EXCEPT !.has_fields = TRUE]
    ELSE Unpadded(Formatted(write_str(PadAdapterNew(self.fmt), <<Newline>>),
                            name, value))

\* The fields of a group schema, added one after the other.
Fields(self, fields, i) ==
    IF i > Len(fields) THEN self
    ELSE Fields(Field(self, Some(fields[i].name), fields[i].value), fields, i + 1)

\* The result of finish beside the formatter.
Finished(self) == [w |-> self.fmt, r |-> self.result]

\* Schema::fmt of a field: a group schema writes itself through a
\* DisplaySchemaGroup of its own, a primitive schema writes its line.
SchemaFmt(value, r, name, fmt) ==
    IF value.k = "Group"
    THEN Finished(Finish(Fields(DisplaySchemaGroupNew(r, name, value.logical,
                                                      fmt),
                                value.fields, 1)))
    ELSE write_str(fmt, RepetitionToString(r[1]) \o <<" ", value.type, " ">>
                        \o Str(UnwrapOr(name, "<name>")) \o <<";">>)

\* ------------------------------------------------------------------------
\* The type trees drawn
\* ------------------------------------------------------------------------

PhysicalTypes ==
    {"Boolean", "Int32", "Int64", "Int96", "Float", "Double", "ByteArray",
     "FixedLenByteArray"}

LogicalTypes ==
    {"None", "Utf8", "Map", "MapKeyValue", "List", "Enum", "Decimal", "Date",
     "TimeMillis", "TimeMicros", "TimestampMillis", "TimestampMicros", "Uint8",
     "Uint16", "Uint32", "Uint64", "Int8", "Int16", "Int32", "Int64", "Json",
     "Bson", "Interval"}

\* Precisions, scales and type lengths: unset or negative (-1) and set.
Precisions == {-1, 9}

Scales == {-1, 2}

TypeLengths == {-1, 12}

\* Every primitive type, for the inference of atoms.
Primitives ==
    { PrimitiveType("a", rp, p, l, pr, sc, len) :
        rp \in Repetitions, p \in PhysicalTypes, l \in LogicalTypes,
        pr \in Precisions, sc \in Scales, len \in TypeLengths }

Int32Type(name, repetition) ==
    PrimitiveType(name, repetition, "Int32", "None", -1, -1, -1)

\* The leaves and the groups of the trees of Spec: the names are fixed, the
\* repetitions, annotations and field lists vary.
Leaves == { Int32Type("a", rp) : rp \in Repetitions }

GroupNames == {"a"}

GroupLogicals == {"None", "List", "Map"}

\* The names of the trees of SpecList: those parse_list tells apart, and one
\* it does not.
ListNames == {"list", "element", "array", "a_tuple", "a"}

OuterNames == {"a", "list"}

ListLeaves == { Int32Type(n, rp) : n \in ListNames, rp \in Repetitions }

\* A field drawn beside the tree built so far.
Sibling == Int32Type("b", "Optional")

RECURSIVE Depth(_)
RECURSIVE MaxOf(_)
MaxOf(S) == IF S = {} THEN 0
            ELSE LET x == CHOOSE y \in S : \A z \in S : z <= y IN x

Depth(t) ==
    IF is_primitive(t) THEN 0
    ELSE 1 + MaxOf({Depth(t.fields[i]) : i \in 1..Len(t.fields)})

\* The field lists of at most MaxFields fields around t: t alone, t twice
\* (two fields of one name), and t followed by siblings.
FieldLists(t) ==
    {<<t, t>>} \cup
    { [i \in 1..n |-> IF i = 1 THEN t ELSE Sibling] : n \in 1..MaxFields }

EmptyGroups(names, logicals) ==
    { GroupType(n, rp, l, << >>) :
        n \in names, rp \in Repetitions, l \in logicals }

GroupsAround(t, names, logicals) ==
    { GroupType(n, rp, l, f) :
        n \in names, rp \in Repetitions, l \in logicals, f \in FieldLists(t) }

NoResult == [r |-> "None"]

NoReader == Built([rd |-> "None"], << >>, FALSE)

\* No Value is under consideration.
NoValue == [kind |-> "None"]

\* ------------------------------------------------------------------------
\* The state machine
\* ------------------------------------------------------------------------

Fresh ==
    /\ op = "new"
    /\ arg = None
    /\ res = NoResult
    /\ rdr = NoReader
    /\ this = NoValue

Init ==
    /\ node \in Leaves \cup EmptyGroups(GroupNames, GroupLogicals)
    /\ Fresh

\* A group type is built around the tree drawn so far.
NewGroup ==
    /\ op = "new"
    /\ Depth(node) < MaxDepth
    /\ node' \in GroupsAround(node, GroupNames, GroupLogicals)
    /\ UNCHANGED <<op, arg, res, rdr, this>>

ParseArgs == {None} \cup {Some(rp) : rp \in Repetitions}

CallValueParse ==
    /\ op = "new"
    /\ \E repetition \in ParseArgs :
          /\ arg' = repetition
          /\ res' = ValueParse(node, repetition)
    /\ op' = "Value::parse"
    /\ UNCHANGED <<node, rdr, this>>

CallListParse ==
    /\ op = "new"
    /\ \E repetition \in ParseArgs :
          /\ arg' = repetition
          /\ res' = ListParse(node, repetition)
    /\ op' = "List::parse"
    /\ UNCHANGED <<node, rdr, this>>

CallGroupParse ==
    /\ op = "new"
    /\ \E repetition \in ParseArgs :
          /\ arg' = repetition
          /\ res' = GroupParse(node, repetition)
    /\ op' = "Group::parse"
    /\ UNCHANGED <<node, rdr, this>>

\* The reader of an inferred schema is built as the reader of a field of the
\* root: under the field's name, at levels 0.
CallValueReader ==
    /\ op = "Value::parse"
    /\ res.r = "Ok"
    /\ rdr' = ValueReader(res.schema, <<res.name>>, 0, 0)
    /\ op' = "Value::reader"
    /\ UNCHANGED <<node, arg, res, this>>

CallListReader ==
    /\ op = "List::parse"
    /\ res.r = "Ok"
    /\ rdr' = ListReader(res.schema, <<res.name>>, 0, 0)
    /\ op' = "List::reader"
    /\ UNCHANGED <<node, arg, res, this>>

CallGroupReader ==
    /\ op = "Group::parse"
    /\ res.r = "Ok"
    /\ rdr' = GroupReader(res.schema, <<res.name>>, 0, 0)
    /\ op' = "Group::reader"
    /\ UNCHANGED <<node, arg, res, this>>

CallBoxParse ==
    /\ op = "new"
    /\ \E repetition \in ParseArgs :
          /\ arg' = repetition
          /\ res' = BoxParse(node, repetition)
    /\ op' = "Box::parse"
    /\ UNCHANGED <<node, rdr, this>>

CallBoxReader ==
    /\ op = "Box::parse"
    /\ res.r = "Ok"
    /\ rdr' = BoxReader(res.schema, <<res.name>>, 0, 0)
    /\ op' = "Box::reader"
    /\ UNCHANGED <<node, arg, res, this>>

Next ==
    \/ NewGroup
    \/ CallValueParse
    \/ CallListParse
    \/ CallGroupParse
    \/ CallValueReader
    \/ CallListReader
    \/ CallGroupReader
    \/ CallBoxParse
    \/ CallBoxReader

Spec == Init /\ [][Next]_vars

\* Inference of the atoms: every primitive type, parsed.
InitPrim ==
    /\ node \in Primitives
    /\ Fresh

NextPrim == CallValueParse

SpecPrim == InitPrim /\ [][NextPrim]_vars

\* Lists: a leaf, the repeated child drawn around it, the List-annotated
\* group drawn around the child.
InitList ==
    /\ node \in ListLeaves \cup EmptyGroups(ListNames, {"None"})
    /\ Fresh

NewChild ==
    /\ op = "new"
    /\ is_primitive(node)
    /\ node' \in GroupsAround(node, ListNames, {"None"})
    /\ UNCHANGED <<op, arg, res, rdr, this>>

NewList ==
    /\ op = "new"
    /\ node.logical # "List"
    /\ \E n \in OuterNames, rp \in Repetitions :
          node' = GroupType(n, rp, "List", <<node>>)
    /\ UNCHANGED <<op, arg, res, rdr, this>>

NextList ==
    \/ NewChild
    \/ NewList
    \/ CallValueParse
    \/ CallListParse
    \/ CallValueReader
    \/ CallListReader

SpecList == InitList /\ [][NextList]_vars

\* ------------------------------------------------------------------------
\* Dynamic values
\* ------------------------------------------------------------------------

\* enum Value (value.rs 52-105), the variants in declaration order.
Variants ==
    <<"Bool", "U8", "I8", "U16", "I16", "U32", "I32", "U64", "I64", "F32",
      "F64", "Date", "Time", "Timestamp", "Decimal", "ByteArray", "Bson",
      "String", "Json", "Enum", "List", "Map", "Group", "Option">>

VariantSet == {Variants[i] : i \in 1..Len(Variants)}

PrimitiveVariants == VariantSet \ {"List", "Map", "Group", "Option"}

\* Every Value is a record of the same fields, so that any two can be
\* compared: the variant, the payload of a primitive variant (a number that
\* stands for it), the payload of a composite variant (a sequence).
\* Value::Bool(x) .. Value::Enum(x)
Prim(kind, x) == [kind |-> kind, prim |-> x, items |-> << >>]

\* Value::List(List(items))
ListValue(items) == [kind |-> "List", prim |-> 0, items |-> items]

\* Value::Map(Map(entries)): the entries are [key, value] pairs, their order
\* in the sequence standing for nothing.
MapValue(entries) == [kind |-> "Map", prim |-> 0, items |-> entries]

\* Value::Option(option): None or Some(value)
OptionValue(option) == [kind |-> "Option", prim |-> 0, items |-> option]

\* struct Group(Vec<Value>, Arc<LinkedHashMap<String, usize>>) (group.rs
\* 48-52): the map is the sequence of its (name, ordinal) entries.
Group(values, names) == [values |-> values, names |-> names]

\* Value::Group(group)
GroupValue(group) ==
    [kind |-> "Group", prim |-> 0, items |-> group.values, names |-> group.names]

\* A value returned, as opposed to a panic.
Returned(value) == [r |-> "Ok", value |-> value]

\* LinkedHashMap::get
MapGet(names, k) ==
    IF \E i \in 1..Len(names) : names[i].name = k
    THEN Some(names[CHOOSE i \in 1..Len(names) : names[i].name = k].ord)
    ELSE None

\* Vec::index (group.rs 132, 153)
VecIndex(values, index) ==
    IF index < Len(values) THEN Returned(values[index + 1])
    ELSE Panic("index out of bounds")

\* Some(value), unless the evaluation of value panicked.
SomeOf(result) ==
    IF result.r = "Ok" THEN Returned(Some(result.value)) ELSE result

\* offset.map(|&offset| &self.0[offset])
MapOffset(values, offset) ==
    IF offset = None THEN Returned(None)
    ELSE SomeOf(VecIndex(values, offset[1]))

\* GroupGet with the position of the name in the map taken for its ordinal.
GroupGetByPosition(group, k) ==
    MapOffset(group.values,
              IF MapGet(group.names, k) = None THEN None
              ELSE Some((CHOOSE i \in 1..Len(group.names) :
                            group.names[i].name = k) - 1))

\* Group::get (group.rs 131-133)
GroupGet(group, k) == MapOffset(group.values, MapGet(group.names, k))

\* <Group as Index<usize>>::index (group.rs 149-155)
IndexUsize(group, index) == VecIndex(group.values, index)

\* Option::unwrap
Unwrap(result) ==
    IF result.r # "Ok" THEN result
    ELSE IF result.value = None THEN Panic("unwrap on None")
    ELSE Returned(result.value[1])

\* <Group as Index<&str>>::index (group.rs 161-167)
IndexStr(group, k) == Unwrap(GroupGet(group, k))

\* <Group as From<LinkedHashMap<String, Value>>>::from (group.rs 182-198):
\* the hash map is the sequence of its (name, value) entries.
FromLinkedHashMap(hashmap) ==
    Group([i \in 1..Len(hashmap) |-> hashmap[i].value],
          [i \in 1..Len(hashmap) |-> [name |-> hashmap[i].name, ord |-> i - 1]])

\* ------------------------------------------------------------------------
\* Accessors of Value
\* ------------------------------------------------------------------------

\* The accessors is_x, as_x, into_x (value.rs 207-999), by their suffix x.
Accessors ==
    {"bool", "u8", "i8", "u16", "i16", "u32", "i32", "u64", "i64", "f32",
     "f64", "date", "time", "timestamp", "decimal", "byte_array", "bson",
     "string", "json", "enum", "list", "map", "group", "option"}

\* AccessorVariant with is_u8, as_u8 and into_u8 matching Value::I8.
AccessorVariantMisread(x) ==
    CASE x = "bool" -> "Bool"
      [] x = "u8" -> "I8"
      [] x = "i8" -> "U8"
      [] x = "u16" -> "U16"
      [] x = "i16" -> "I16"
      [] x = "u32" -> "U32"
      [] x = "i32" -> "I32"
      [] x = "u64" -> "U64"
      [] x = "i64" -> "I64"
      [] x = "f32" -> "F32"
      [] x = "f64" -> "F64"
      [] x = "date" -> "Date"
      [] x = "time" -> "Time"
      [] x = "timestamp" -> "Timestamp"
      [] x = "decimal" -> "Decimal"
      [] x = "byte_array" -> "ByteArray"
      [] x = "bson" -> "Bson"
      [] x = "string" -> "String"
      [] x = "json" -> "Json"
      [] x = "enum" -> "Enum"
      [] x = "list" -> "List"
      [] x = "map" -> "Map"
      [] x = "group" -> "Group"
      [] x = "option" -> "Option"

\* The variant the `if let` of is_x, as_x and into_x matches.
AccessorVariant(x) ==
    CASE x = "bool" -> "Bool"
      [] x = "u8" -> "U8"
      [] x = "i8" -> "I8"
      [] x = "u16" -> "U16"
      [] x = "i16" -> "I16"
      [] x = "u32" -> "U32"
      [] x = "i32" -> "I32"
      [] x = "u64" -> "U64"
      [] x = "i64" -> "I64"
      [] x = "f32" -> "F32"
      [] x = "f64" -> "F64"
      [] x = "date" -> "Date"
      [] x = "time" -> "Time"
      [] x = "timestamp" -> "Timestamp"
      [] x = "decimal" -> "Decimal"
      [] x = "byte_array" -> "ByteArray"
      [] x = "bson" -> "Bson"
      [] x = "string" -> "String"
      [] x = "json" -> "Json"
      [] x = "enum" -> "Enum"
      [] x = "list" -> "List"
      [] x = "map" -> "Map"
      [] x = "group" -> "Group"
      [] x = "option" -> "Option"

\* The payload `ret` bound by `if let Value::X(ret) = self`.
Payload(value) ==
    CASE value.kind = "Group" -> Group(value.items, value.names)
      [] value.kind \in {"List", "Map", "Option"} -> value.items
      [] OTHER -> value.prim

\* Err(ParquetError::General(format!("Cannot access {:?} as x", self)))
CannotAccess(value, x) ==
    [r |-> "Err", msg |-> "Cannot access as " \o x, actual |-> value]

\* is_x
Is(x, value) == value.kind = AccessorVariant(x)

\* as_x
As(x, value) ==
    IF value.kind = AccessorVariant(x) THEN Returned(Payload(value))
    ELSE CannotAccess(value, x)

\* into_x; into_option maps the ValueRequired of Some back into a Value.
Into(x, value) ==
    IF value.kind = AccessorVariant(x) THEN Returned(Payload(value))
    ELSE CannotAccess(value, x)

\* ------------------------------------------------------------------------
\* Conversion into Value and downcast
\* ------------------------------------------------------------------------

\* The concrete types with a primitive variant.
PrimitiveTypes ==
    {"bool", "u8", "i8", "u16", "i16", "u32", "i32", "u64", "i64",
     "f32", "f64", "Date", "Time", "Timestamp", "Decimal", "Vec<u8>",
     "Bson", "String", "Json", "Enum"}

\* A concrete type: a primitive one, or List<T>, Map<K, V>, Option<T>, Group
\* or Value, with its type arguments.
Type(t, of) == [t |-> t, of |-> of]

\* A value of a concrete type, as a record of the fields of a Value.
Typed(ty, prim, items) == [ty |-> ty, prim |-> prim, items |-> items]

TPrim(t, x) == Typed(Type(t, << >>), x, << >>)

TList(T, items) == Typed(Type("List", <<T>>), 0, items)

TMap(K, V, entries) == Typed(Type("Map", <<K, V>>), 0, entries)

TOption(T, option) == Typed(Type("Option", <<T>>), 0, option)

TGroup(group) == Typed(Type("Group", << >>), 0, <<group>>)

TValue(value) == Typed(Type("Value", << >>), 0, <<value>>)

\* FromPrimitive with From<u8> building the variant its doc comment names.
FromPrimitiveMisread(t) ==
    CASE t = "bool" -> "Bool"
      [] t = "u8" -> "I8"
      [] t = "i8" -> "I8"
      [] t = "u16" -> "U16"
      [] t = "i16" -> "I16"
      [] t = "u32" -> "U32"
      [] t = "i32" -> "I32"
      [] t = "u64" -> "U64"
      [] t = "i64" -> "I64"
      [] t = "f32" -> "F32"
      [] t = "f64" -> "F64"
      [] t = "Date" -> "Date"
      [] t = "Time" -> "Time"
      [] t = "Timestamp" -> "Timestamp"
      [] t = "Decimal" -> "Decimal"
      [] t = "Vec<u8>" -> "ByteArray"
      [] t = "Bson" -> "Bson"
      [] t = "String" -> "String"
      [] t = "Json" -> "Json"
      [] t = "Enum" -> "Enum"

\* From<bool> .. From<Enum> for Value (value.rs 1001-1100): the variant
\* built.
FromPrimitive(t) ==
    CASE t = "bool" -> "Bool"
      [] t = "u8" -> "U8"
      [] t = "i8" -> "I8"
      [] t = "u16" -> "U16"
      [] t = "i16" -> "I16"
      [] t = "u32" -> "U32"
      [] t = "i32" -> "I32"
      [] t = "u64" -> "U64"
      [] t = "i64" -> "I64"
      [] t = "f32" -> "F32"
      [] t = "f64" -> "F64"
      [] t = "Date" -> "Date"
      [] t = "Time" -> "Time"
      [] t = "Timestamp" -> "Timestamp"
      [] t = "Decimal" -> "Decimal"
      [] t = "Vec<u8>" -> "ByteArray"
      [] t = "Bson" -> "Bson"
      [] t = "String" -> "String"
      [] t = "Json" -> "Json"
      [] t = "Enum" -> "Enum"

\* Downcast<bool> .. Downcast<Enum> for Value (value.rs 1163-1262): the
\* into_x called.
DowncastAccessor(t) ==
    CASE t = "bool" -> "bool"
      [] t = "u8" -> "u8"
      [] t = "i8" -> "i8"
      [] t = "u16" -> "u16"
      [] t = "i16" -> "i16"
      [] t = "u32" -> "u32"
      [] t = "i32" -> "i32"
      [] t = "u64" -> "u64"
      [] t = "i64" -> "i64"
      [] t = "f32" -> "f32"
      [] t = "f64" -> "f64"
      [] t = "Date" -> "date"
      [] t = "Time" -> "time"
      [] t = "Timestamp" -> "timestamp"
      [] t = "Decimal" -> "decimal"
      [] t = "Vec<u8>" -> "byte_array"
      [] t = "Bson" -> "bson"
      [] t = "String" -> "string"
      [] t = "Json" -> "json"
      [] t = "Enum" -> "enum"

\* <Option<ValueRequired> as From<Value>>::from: None for an Option, which
\* ValueRequired has no variant for.
RequiredFrom(value) == IF value.kind = "Option" THEN None ELSE Some(value)

\* HashMap::insert: the value of a key already there is replaced.
HashInsert(map, key, value) ==
    IF \E i \in 1..Len(map) : map[i].key = key
    THEN [i \in 1..Len(map) |->
             IF map[i].key = key THEN [key |-> key, value |-> value] ELSE map[i]]
    ELSE Append(map, [key |-> key, value |-> value])

RECURSIVE From(_)
RECURSIVE FromAll(_, _, _)
RECURSIVE FromNext(_, _, _, _)
RECURSIVE FromEntries(_, _, _)
RECURSIVE FromEntry(_, _, _, _, _)

\* Result::map(Value::List), Result::map(Value::Map)
Wrapped(kind, result) ==
    IF result.r # "Ok" THEN result
    ELSE Returned([kind |-> kind, prim |-> 0, items |-> result.value])

\* value.0.into_iter().map(Into::into).collect() (value.rs 1106)
FromAll(items, i, values) ==
    IF i > Len(items) THEN Returned(values)
    ELSE FromNext(items, i, values, From(items[i]))

FromNext(items, i, values, value) ==
    IF value.r # "Ok" THEN value
    ELSE FromAll(items, i + 1, Append(values, value.value))

\* .map(|(k, v)| (k.into(), v.into())).collect() (value.rs 1120-1124)
FromEntries(entries, i, map) ==
    IF i > Len(entries) THEN Returned(map)
    ELSE FromEntry(entries, i, map, From(entries[i].key), From(entries[i].value))

FromEntry(entries, i, map, k, v) ==
    IF k.r # "Ok" THEN k
    ELSE IF v.r # "Ok" THEN v
    ELSE FromEntries(entries, i + 1, HashInsert(map, k.value, v.value))

\* UnwrapRequired with an Option nested in the Some instead of unwrapped.
UnwrapOrNest(value) ==
    IF value.r # "Ok" THEN value ELSE Returned(OptionValue(Some(value.value)))

\* .map(|x| <Option<ValueRequired> as From<Value>>::from(x).unwrap())
\* (value.rs 1145, 1151)
UnwrapRequired(value) ==
    IF value.r # "Ok" THEN value
    ELSE IF RequiredFrom(value.value) = None THEN Panic("unwrap on None")
    ELSE Returned(OptionValue(RequiredFrom(value.value)))

\* From<T> for Value (value.rs 1001-1153)
From(x) ==
    CASE x.ty.t = "Value" -> Returned(x.items[1])
      [] x.ty.t = "Group" -> Returned(GroupValue(x.items[1]))
      [] x.ty.t = "List" -> Wrapped("List", FromAll(x.items, 1, << >>))
      [] x.ty.t = "Map" -> Wrapped("Map", FromEntries(x.items, 1, << >>))
      [] x.ty.t = "Option" ->
            IF x.items = None THEN Returned(OptionValue(None))
            ELSE UnwrapRequired(From(x.items[1]))
      [] OTHER -> Returned(Prim(FromPrimitive(x.ty.t), x.prim))

RECURSIVE Downcast(_, _)
RECURSIVE DowncastAll(_, _, _, _)
RECURSIVE DowncastNext(_, _, _, _, _)
RECURSIVE DowncastEntries(_, _, _, _)
RECURSIVE DowncastEntry(_, _, _, _, _, _)

\* Result::map of a payload into the value of the concrete type.
TypedAs(ty, result) ==
    IF result.r # "Ok" THEN result
    ELSE CASE ty.t = "Group" -> Returned(TGroup(result.value))
           [] ty.t \in {"List", "Map", "Option"} ->
                 Returned(Typed(ty, 0, result.value))
           [] OTHER -> Returned(TPrim(ty.t, result.value))

\* list.0.into_iter().map(Downcast::downcast).collect::<Result<Vec<_>>>()
\* (value.rs 1269-1272)
DowncastAll(T, list, i, items) ==
    IF i > Len(list) THEN Returned(items)
    ELSE DowncastNext(T, list, i, items, Downcast(T, list[i]))

DowncastNext(T, list, i, items, item) ==
    IF item.r # "Ok" THEN item
    ELSE DowncastAll(T, list, i + 1, Append(items, item.value))

\* .map(|(k, v)| Ok((k.downcast()?, v.downcast()?))).collect() (value.rs
\* 1289-1292): the value is downcast only when the key was.
DowncastEntries(ty, map, i, entries) ==
    IF i > Len(map) THEN Returned(entries)
    ELSE DowncastEntry(ty, map, i, entries, Downcast(ty.of[1], map[i].key),
                       Downcast(ty.of[2], map[i].value))

DowncastEntry(ty, map, i, entries, k, v) ==
    IF k.r # "Ok" THEN k
    ELSE IF v.r # "Ok" THEN v
    ELSE DowncastEntries(ty, map, i + 1, HashInsert(entries, k.value, v.value))

\* self.into_list().and_then(..), self.into_map().and_then(..)
AndThenAll(ty, payload) ==
    IF payload.r # "Ok" THEN payload
    ELSE IF ty.t = "List" THEN DowncastAll(ty.of[1], payload.value, 1, << >>)
    ELSE DowncastEntries(ty, payload.value, 1, << >>)

\* Downcast::<T>::downcast(t).map(Some)
MapSome(result) ==
    IF result.r # "Ok" THEN result ELSE Returned(Some(result.value))

\* match self.into_option()? { Some(t) => .., None => Ok(None) } (value.rs
\* 1312-1315)
DowncastOption(T, option) ==
    IF option.r # "Ok" THEN option
    ELSE IF option.value = None THEN Returned(None)
    ELSE MapSome(Downcast(T, option.value[1]))

\* Downcast<T> for Value (value.rs 1158-1322)
Downcast(ty, value) ==
    CASE ty.t = "Value" -> Returned(TValue(value))
      [] ty.t = "Group" -> TypedAs(ty, Into("group", value))
      [] ty.t = "List" -> TypedAs(ty, AndThenAll(ty, Into("list", value)))
      [] ty.t = "Map" -> TypedAs(ty, AndThenAll(ty, Into("map", value)))
      [] ty.t = "Option" ->
            TypedAs(ty, DowncastOption(ty.of[1], Into("option", value)))
      [] OTHER -> TypedAs(ty, Into(DowncastAccessor(ty.t), value))

\* ------------------------------------------------------------------------
\* Equality of Value
\* ------------------------------------------------------------------------

RECURSIVE ValueEq(_, _)
\* #[derive(PartialEq)] of Value (value.rs 51) and of Group (group.rs 48):
\* variant by variant; two maps are equal when they have the same number of
\* entries and each key of one has an equal value in the other; the name
\* maps of two groups are compared in order.
ValueEq(a, b) ==
    /\ a.kind = b.kind
    /\ CASE a.kind = "Map" ->
               /\ Len(a.items) = Len(b.items)
               /\ \A i \in 1..Len(a.items) : \E j \in 1..Len(b.items) :
                     /\ ValueEq(a.items[i].key, b.items[j].key)
                     /\ ValueEq(a.items[i].value, b.items[j].value)
         [] a.kind \in {"List", "Option", "Group"} ->
               /\ Len(a.items) = Len(b.items)
               /\ \A i \in 1..Len(a.items) : ValueEq(a.items[i], b.items[i])
               /\ a.kind = "Group" => a.names = b.names
         [] OTHER -> a.prim = b.prim

\* PartialEq<bool> .. PartialEq<Enum> for Value (value.rs 1326-1433): the
\* as_x called.
EqAccessor(t) ==
    CASE t = "bool" -> "bool"
      [] t = "u8" -> "u8"
      [] t = "i8" -> "i8"
      [] t = "u16" -> "u16"
      [] t = "i16" -> "i16"
      [] t = "u32" -> "u32"
      [] t = "i32" -> "i32"
      [] t = "u64" -> "u64"
      [] t = "i64" -> "i64"
      [] t = "f32" -> "f32"
      [] t = "f64" -> "f64"
      [] t = "Date" -> "date"
      [] t = "Time" -> "time"
      [] t = "Timestamp" -> "timestamp"
      [] t = "Decimal" -> "decimal"
      [] t = "Vec<u8>" -> "byte_array"
      [] t = "Bson" -> "bson"
      [] t = "String" -> "string"
      [] t = "Json" -> "json"
      [] t = "Enum" -> "enum"

RECURSIVE Eq(_, _)
RECURSIVE AllEq(_, _, _)
RECURSIVE AllEqNext(_, _, _, _)
RECURSIVE AllIn(_, _, _)
RECURSIVE AllInNext(_, _, _, _)
RECURSIVE KeysInto(_, _, _)
RECURSIVE KeysIntoNext(_, _, _, _)

\* MapOrFalse with unwrap_or(true).
MapOrTrue(payload, other) ==
    Returned(payload.r # "Ok" \/ payload.value = other)

\* .map(|x| x == other).unwrap_or(false)
MapOrFalse(payload, other) ==
    Returned(payload.r = "Ok" /\ payload.value = other)

\* <[Value] as PartialEq<[T]>>::eq behind `list == other` (list.rs 212-214):
\* the lengths, then the elements up to the first that differs.
AllEq(list, items, i) ==
    IF Len(list) # Len(items) THEN Returned(FALSE)
    ELSE IF i > Len(list) THEN Returned(TRUE)
    ELSE AllEqNext(list, items, i, Eq(list[i], items[i]))

AllEqNext(list, items, i, eq) ==
    IF eq.r # "Ok" \/ ~eq.value THEN eq ELSE AllEq(list, items, i + 1)

\* other.0.iter().map(|(k, v)| (k.clone().into(), v)).collect() (value.rs
\* 1453-1457): the keys of other as Values.
KeysInto(entries, i, map) ==
    IF i > Len(entries) THEN Returned(map)
    ELSE KeysIntoNext(entries, i, map, From(entries[i].key))

KeysIntoNext(entries, i, map, k) ==
    IF k.r # "Ok" THEN k
    ELSE KeysInto(entries, i + 1, HashInsert(map, k.value, entries[i].value))

\* other.get(key): the entries whose key equals key.
HashGet(map, key) ==
    IF \E j \in 1..Len(map) : ValueEq(map[j].key, key)
    THEN Some(map[CHOOSE j \in 1..Len(map) : ValueEq(map[j].key, key)].value)
    ELSE None

\* map.0.iter().all(|(key, value)| other.get(key).map_or(false, |v| value ==
\* *v)) (value.rs 1459-1461)
AllIn(map, other, i) ==
    IF i > Len(map) THEN Returned(TRUE)
    ELSE IF HashGet(other, map[i].key) = None THEN Returned(FALSE)
    ELSE AllInNext(map, other, i,
                   Eq(map[i].value, HashGet(other, map[i].key)[1]))

AllInNext(map, other, i, eq) ==
    IF eq.r # "Ok" \/ ~eq.value THEN eq ELSE AllIn(map, other, i + 1)

\* The closure of PartialEq<Map<K, V>> (value.rs 1446-1462), other with its
\* keys converted.
AllInConverted(map, other) ==
    IF other.r # "Ok" THEN other ELSE AllIn(map, other.value, 1)

\* PartialEq<T> for Value (value.rs 1326-1487)
Eq(value, other) ==
    CASE other.ty.t = "Value" -> Returned(ValueEq(value, other.items[1]))
      [] other.ty.t = "Group" ->
            Returned(value.kind = "Group"
                     /\ ValueEq(value, GroupValue(other.items[1])))
      [] other.ty.t = "List" ->
            IF As("list", value).r # "Ok" THEN Returned(FALSE)
            ELSE AllEq(value.items, other.items, 1)
      [] other.ty.t = "Map" ->
            IF As("map", value).r # "Ok" THEN Returned(FALSE)
            ELSE IF Len(value.items) # Len(other.items) THEN Returned(FALSE)
            ELSE AllInConverted(value.items, KeysInto(other.items, 1, << >>))
      [] other.ty.t = "Option" ->
            IF As("option", value).r # "Ok" THEN Returned(FALSE)
            ELSE IF value.items = None \/ other.items = None
            THEN Returned(value.items = None /\ other.items = None)
            ELSE Eq(value.items[1], other.items[1])
      [] OTHER -> MapOrFalse(As(EqAccessor(other.ty.t), value), other.prim)

\* ------------------------------------------------------------------------
\* Hash of Value
\* ------------------------------------------------------------------------

\* Tag with the tag of Option that of Group.
TagCollides(kind) ==
    CASE kind = "Bool" -> 0
      [] kind = "U8" -> 1
      [] kind = "I8" -> 2
      [] kind = "U16" -> 3
      [] kind = "I16" -> 4
      [] kind = "U32" -> 5
      [] kind = "I32" -> 6
      [] kind = "U64" -> 7
      [] kind = "I64" -> 8
      [] kind = "F32" -> 9
      [] kind = "F64" -> 10
      [] kind = "Date" -> 11
      [] kind = "Time" -> 12
      [] kind = "Timestamp" -> 13
      [] kind = "Decimal" -> 14
      [] kind = "ByteArray" -> 15
      [] kind = "Bson" -> 16
      [] kind = "String" -> 17
      [] kind = "Json" -> 18
      [] kind = "Enum" -> 19
      [] kind = "List" -> 20
      [] kind = "Map" -> 21
      [] kind = "Group" -> 22
      [] kind = "Option" -> 22

\* The kind tag fed first: 0u8.hash(state) .. 23u8.hash(state) (value.rs
\* 111-201)
Tag(kind) ==
    CASE kind = "Bool" -> 0
      [] kind = "U8" -> 1
      [] kind = "I8" -> 2
      [] kind = "U16" -> 3
      [] kind = "I16" -> 4
      [] kind = "U32" -> 5
      [] kind = "I32" -> 6
      [] kind = "U64" -> 7
      [] kind = "I64" -> 8
      [] kind = "F32" -> 9
      [] kind = "F64" -> 10
      [] kind = "Date" -> 11
      [] kind = "Time" -> 12
      [] kind = "Timestamp" -> 13
      [] kind = "Decimal" -> 14
      [] kind = "ByteArray" -> 15
      [] kind = "Bson" -> 16
      [] kind = "String" -> 17
      [] kind = "Json" -> 18
      [] kind = "Enum" -> 19
      [] kind = "List" -> 20
      [] kind = "Map" -> 21
      [] kind = "Group" -> 22
      [] kind = "Option" -> 23

\* PayloadFree without the floating-point variants.
PayloadFreeButFloats == {"Decimal", "Map", "Group"}

\* The variants whose arm binds _value and feeds the tag only (value.rs 147,
\* 150, 165, 192, 195).
PayloadFree == {"F32", "F64", "Decimal", "Map", "Group"}

RECURSIVE HashFeed(_)
RECURSIVE FeedAll(_, _)

\* The feeds of the elements one after the other.
FeedAll(items, i) ==
    IF i > Len(items) THEN << >> ELSE HashFeed(items[i]) \o FeedAll(items, i + 1)

\* What value.hash(state) feeds after the tag: the payload of a primitive; the
\* length and the elements of a list (#[derive(Hash)] of List, list.rs 90);
\* the discriminant and the value of an option.
PayloadFeed(value) ==
    CASE value.kind = "List" -> <<Len(value.items)>> \o FeedAll(value.items, 1)
      [] value.kind = "Option" -> <<Len(value.items)>> \o FeedAll(value.items, 1)
      [] OTHER -> <<value.prim>>

\* HashFeed with the keys of a map fed in the order of iteration.
HashFeedInOrder(value) ==
    IF value.kind = "Map"
    THEN <<Tag(value.kind)>>
         \o FeedAll([i \in 1..Len(value.items) |-> value.items[i].key], 1)
    ELSE IF value.kind \in PayloadFree THEN <<Tag(value.kind)>>
    ELSE <<Tag(value.kind)>> \o PayloadFeed(value)

\* <Value as Hash>::hash (value.rs 108-204): what is fed to the hasher, in
\* order.
HashFeed(value) ==
    IF value.kind \in PayloadFree THEN <<Tag(value.kind)>>
    ELSE <<Tag(value.kind)>> \o PayloadFeed(value)

\* ------------------------------------------------------------------------
\* The groups drawn
\* ------------------------------------------------------------------------

FieldNames == {"a", "b"}

\* The names asked for: one is never a field.
AskedNames == FieldNames \cup {"c"}

FieldValues == {Prim("I32", 0), Prim("I32", 1), Prim("Bool", 1)}

Ordinals == 0..MaxFields

SeqsUpTo(S, n) == UNION {[1..k -> S] : k \in 0..n}

\* The sequences of entries whose names are pairwise distinct.
DistinctNames(entries) ==
    \A i, j \in 1..Len(entries) : entries[i].name = entries[j].name => i = j

NameMaps ==
    {m \in SeqsUpTo([name : FieldNames, ord : Ordinals], Cardinality(FieldNames)) :
        DistinctNames(m)}

HashMaps ==
    {m \in SeqsUpTo([name : FieldNames, value : FieldValues],
                    Cardinality(FieldNames)) :
        DistinctNames(m)}

NoType == [kind |-> "None"]

InitGroup ==
    /\ node = NoType
    /\ Fresh

\* Group::new (group.rs 123-128)
GroupNew ==
    /\ op = "new"
    /\ \E values \in SeqsUpTo(FieldValues, MaxFields), names \in NameMaps :
          this' = Group(values, names)
    /\ op' = "Group"
    /\ UNCHANGED <<node, arg, res, rdr>>

GroupFrom ==
    /\ op = "new"
    /\ \E hashmap \in HashMaps : this' = FromLinkedHashMap(hashmap)
    /\ op' = "Group"
    /\ UNCHANGED <<node, arg, res, rdr>>

CallGet ==
    /\ op = "Group"
    /\ \E k \in AskedNames :
          /\ arg' = <<k>>
          /\ res' = GroupGet(this, k)
    /\ op' = "Group::get"
    /\ UNCHANGED <<node, rdr, this>>

CallIndexStr ==
    /\ op = "Group"
    /\ \E k \in AskedNames :
          /\ arg' = <<k>>
          /\ res' = IndexStr(this, k)
    /\ op' = "Group::index(&str)"
    /\ UNCHANGED <<node, rdr, this>>

CallIndexUsize ==
    /\ op = "Group"
    /\ \E index \in Ordinals :
          /\ arg' = <<index>>
          /\ res' = IndexUsize(this, index)
    /\ op' = "Group::index(usize)"
    /\ UNCHANGED <<node, rdr, this>>

NextGroup ==
    \/ GroupNew
    \/ GroupFrom
    \/ CallGet
    \/ CallIndexStr
    \/ CallIndexUsize

SpecGroup == InitGroup /\ [][NextGroup]_vars

\* ------------------------------------------------------------------------
\* The values drawn
\* ------------------------------------------------------------------------

MaxItems == 2

PrimPayloads == {0, 1}

PrimValues == {Prim(kind, x) : kind \in PrimitiveVariants, x \in PrimPayloads}

RequiredValues ==
    {Prim("I32", 0), Prim("I32", 1), Prim("F64", 0), ListValue(<< >>)}

OptionValues ==
    {OptionValue(None)} \cup {OptionValue(Some(value)) : value \in RequiredValues}

ElementValues ==
    {Prim("I32", 0), Prim("I32", 1), Prim("F64", 0), OptionValue(None),
     OptionValue(Some(Prim("I32", 1)))}

ListValues == {ListValue(items) : items \in SeqsUpTo(ElementValues, MaxItems)}

DistinctKeys(entries) ==
    \A i, j \in 1..Len(entries) : entries[i].key = entries[j].key => i = j

HashMapsOf(keys, values) ==
    {m \in SeqsUpTo([key : keys, value : values], MaxItems) : DistinctKeys(m)}

MapValues ==
    {MapValue(entries) :
        entries \in HashMapsOf({Prim("I32", 0), Prim("I32", 1), Prim("String", 0)},
                               {Prim("I32", 0), OptionValue(None)})}

GroupValues == {GroupValue(FromLinkedHashMap(hashmap)) : hashmap \in HashMaps}

Values ==
    PrimValues \cup OptionValues \cup ListValues \cup MapValues \cup GroupValues

TyI32 == Type("i32", << >>)

TyString == Type("String", << >>)

TyValue == Type("Value", << >>)

TyOption(T) == Type("Option", <<T>>)

TypedPrims == {TPrim(t, x) : t \in PrimitiveTypes, x \in PrimPayloads}

TypedI32 == {TPrim("i32", x) : x \in PrimPayloads}

OptionsOf(T, S) == {TOption(T, None)} \cup {TOption(T, Some(x)) : x \in S}

ListsOf(T, S) == {TList(T, items) : items \in SeqsUpTo(S, MaxItems)}

MapsOf(K, V, keys, values) ==
    {TMap(K, V, entries) : entries \in HashMapsOf(keys, values)}

TypedOptions == OptionsOf(TyI32, TypedI32)

\* Option<Option<i32>>
TypedOptionOptions == OptionsOf(TyOption(TyI32), TypedOptions)

TypedValues ==
    TypedPrims \cup TypedOptions \cup TypedOptionOptions
    \cup ListsOf(TyI32, TypedI32)
    \cup ListsOf(TyOption(TyI32), TypedOptions)
    \cup ListsOf(TyValue, {TValue(Prim("I32", 1)), TValue(OptionValue(None))})
    \cup MapsOf(TyI32, TyI32, TypedI32, TypedI32)
    \cup MapsOf(TyString, TyOption(TyI32), {TPrim("String", 0)}, TypedOptions)
    \cup MapsOf(TyOption(TyOption(TyI32)), TyI32, TypedOptionOptions,
                {TPrim("i32", 0)})
    \cup OptionsOf(Type("List", <<TyI32>>), ListsOf(TyI32, {TPrim("i32", 1)}))
    \cup {TGroup(FromLinkedHashMap(hashmap)) : hashmap \in HashMaps}
    \cup {TValue(value) : value \in OptionValues}
    \cup OptionsOf(TyValue, {TValue(Prim("I32", 1)), TValue(OptionValue(None))})

InitValue ==
    /\ node = NoType
    /\ op = "new"
    /\ arg = None
    /\ res = NoResult
    /\ rdr = NoReader
    /\ this \in Values

CallIs ==
    /\ op = "new"
    /\ \E x \in Accessors :
          /\ arg' = <<x>>
          /\ res' = Returned(Is(x, this))
    /\ op' = "is"
    /\ UNCHANGED <<node, rdr, this>>

CallAs ==
    /\ op = "new"
    /\ \E x \in Accessors :
          /\ arg' = <<x>>
          /\ res' = As(x, this)
    /\ op' = "as"
    /\ UNCHANGED <<node, rdr, this>>

CallInto ==
    /\ op = "new"
    /\ \E x \in Accessors :
          /\ arg' = <<x>>
          /\ res' = Into(x, this)
    /\ op' = "into"
    /\ UNCHANGED <<node, rdr, this>>

\* Value::from(x): the Value at hand plays no part.
CallFrom ==
    /\ op = "new"
    /\ \E x \in TypedValues :
          /\ arg' = <<x>>
          /\ res' = From(x)
    /\ op' = "Value::from"
    /\ this' = NoValue
    /\ UNCHANGED <<node, rdr>>

\* The Value converted from x is downcast to the type of x.
CallDowncast ==
    /\ op = "Value::from"
    /\ res.r = "Ok"
    /\ this' = res.value
    /\ res' = Downcast(arg[1].ty, res.value)
    /\ op' = "downcast"
    /\ UNCHANGED <<node, arg, rdr>>

CallEq ==
    /\ op = "new"
    /\ \E x \in TypedValues :
          /\ arg' = <<x>>
          /\ res' = Eq(this, x)
    /\ op' = "Value::eq"
    /\ UNCHANGED <<node, rdr, this>>

CallHash ==
    /\ op = "new"
    /\ res' = Returned(HashFeed(this))
    /\ op' = "Value::hash"
    /\ UNCHANGED <<node, arg, rdr, this>>

NextValue ==
    \/ CallIs
    \/ CallAs
    \/ CallInto
    \/ CallFrom
    \/ CallDowncast
    \/ CallEq
    \/ CallHash

SpecValue == InitValue /\ [][NextValue]_vars

\* ------------------------------------------------------------------------
\* The texts written through a PadAdapter
\* ------------------------------------------------------------------------

MaxLen == 2

MaxWrites == 3

Pieces == {"a", Newline}

Texts == SeqsUpTo(Pieces, MaxLen)

\* The formatters drawn under a PadAdapter: one that never fails, one that
\* fails its second call.
PadFormatters == {Formatter(0), Formatter(2)}

\* `node` is the sequence of the texts passed to write_str so far, `this`
\* the adapter, `arg` the text the running call has left to write.
InitPad ==
    /\ node = << >>
    /\ op = "PadAdapter"
    /\ arg = None
    /\ res = NoResult
    /\ rdr = NoReader
    /\ \E fmt \in PadFormatters : this = PadAdapterNew(fmt)

\* write_str is entered with a text.
CallWriteStr ==
    /\ op = "PadAdapter"
    /\ Len(node) < MaxWrites
    /\ \E s \in Texts :
          /\ arg' = Some(s)
          /\ node' = Append(node, s)
    /\ op' = "write_str"
    /\ UNCHANGED <<res, rdr, this>>

\* One iteration of the loop; an error of the formatter ends the call.
Loop ==
    /\ op = "write_str"
    /\ arg[1] # << >>
    /\ this' = Iteration(this, arg[1]).w
    /\ IF Iteration(this, arg[1]).r = "Err"
       THEN op' = "PadAdapter" /\ arg' = None /\ res' = [r |-> "Err"]
       ELSE op' = op /\ arg' = Some(Iteration(this, arg[1]).s) /\ res' = res
    /\ UNCHANGED <<node, rdr>>

\* The loop is left and Ok(()) returned.
Return ==
    /\ op = "write_str"
    /\ arg[1] = << >>
    /\ op' = "PadAdapter"
    /\ arg' = None
    /\ res' = [r |-> "Ok"]
    /\ UNCHANGED <<node, rdr, this>>

NextPad ==
    \/ CallWriteStr
    \/ Loop
    \/ Return

SpecPad == InitPad /\ [][NextPad]_vars

\* ------------------------------------------------------------------------
\* The groups displayed
\* ------------------------------------------------------------------------

\* The last call of the formatter that may be drawn to fail.
MaxFail == 8

\* The formatters drawn under a builder: one that never fails, and one for
\* each call up to MaxFail that fails that call alone.
Formatters == { Formatter(fail_at) : fail_at \in 0..MaxFail }

\* The schemas displayed as fields: a primitive schema, which writes one
\* line, and group schemas, which write themselves through a builder.
LeafSchema == [k |-> "Leaf", type |-> "int32", logical |-> None, fields |-> << >>]

GroupOf(logical, fields) ==
    [k |-> "Group", type |-> "", logical |-> logical, fields |-> fields]

Named2(name, value) == [name |-> name, value |-> value]

DisplayLogicals == {None, Some("List")}

\* Groups of primitive fields.
InnerGroups ==
    { GroupOf(l, f) :
        l \in DisplayLogicals,
        f \in {<< >>, <<Named2("a", LeafSchema)>>,
               <<Named2("a", LeafSchema), Named2("b", LeafSchema)>>} }

\* Groups that hold a group.
OuterGroups ==
    { GroupOf(None, f) :
        f \in { <<Named2("a", x)>> : x \in InnerGroups }
              \cup { <<Named2("a", x), Named2("b", LeafSchema)>> :
                        x \in InnerGroups } }

DisplayValues == {LeafSchema} \cup InnerGroups \cup OuterGroups

DisplayRepetitions == {None} \cup { Some(rp) : rp \in Repetitions }

DisplayNames == {None, Some("g")}

\* `node` is the group displayed so far: the arguments of new and the fields
\* added; `this` is the builder.
InitDisplay ==
    /\ node = NoType
    /\ Fresh

DisplayNew ==
    /\ op = "new"
    /\ \E r \in DisplayRepetitions, name \in DisplayNames,
          logical \in DisplayLogicals, fmt \in Formatters :
          /\ this' = DisplaySchemaGroupNew(r, name, logical, fmt)
          /\ node' = [k |-> "Group", r |-> r, name |-> name,
                      logical |-> logical, fields |-> << >>]
    /\ op' = "DisplaySchemaGroup"
    /\ UNCHANGED <<arg, res, rdr>>

DisplayField ==
    /\ op = "DisplaySchemaGroup"
    /\ Len(node.fields) < MaxFields
    /\ \E name \in FieldNames, value \in DisplayValues :
          /\ name = (IF node.fields = << >> THEN "a" ELSE "b")
          /\ this' = Field(this, Some(name), value)
          /\ node' = [node EXCEPT !.fields = Append(@, Named2(name, value))]
    /\ UNCHANGED <<op, arg, res, rdr>>

DisplayFinish ==
    /\ op = "DisplaySchemaGroup"
    /\ this' = Finish(this)
    /\ res' = [r |-> Finish(this).result]
    /\ op' = "finish"
    /\ UNCHANGED <<node, arg, rdr>>

NextDisplay ==
    \/ DisplayNew
    \/ DisplayField
    \/ DisplayFinish

SpecDisplay == InitDisplay /\ [][NextDisplay]_vars

\* ------------------------------------------------------------------------
\* Properties
\* ------------------------------------------------------------------------

Parsed(o) == op = o /\ arg # None

\* The schema below the wrapper the repetition adds.
Unlift(schema, repetition) ==
    CASE repetition = "Optional" -> schema.inner
      [] repetition = "Repeated" -> schema.elem
      [] OTHER -> schema

RECURSIVE NoOptionInOption(_)
NoOptionInOption(schema) ==
    CASE schema.s = "Option" ->
            schema.inner.s # "Option" /\ NoOptionInOption(schema.inner)
      [] schema.s = "List" -> NoOptionInOption(schema.elem)
      [] schema.s = "Map" ->
            NoOptionInOption(schema.key) /\ NoOptionInOption(schema.value)
      [] schema.s = "Group" ->
            \A i \in 1..Len(schema.fields) : NoOptionInOption(schema.fields[i])
      [] OTHER -> TRUE

\* C1: inference is total: Value::parse and Group::parse return a schema or
\* an error value and never abort, whatever the type tree and the repetition.
C1_InferenceTotal ==
    op \in {"Value::parse", "Group::parse"} => res.r \in {"Ok", "Err"}

\* C2: a node accepted with outer repetition Optional yields Option(inner)
\* with inner not an Option, one accepted with Required yields no Option at
\* the top, and no returned schema holds an Option directly inside an Option.
C2_OptionNeverNested ==
    (op = "Value::parse" /\ res.r = "Ok") =>
        /\ arg = Some("Optional") =>
              res.schema.s = "Option" /\ res.schema.inner.s # "Option"
        /\ arg = Some("Required") => res.schema.s # "Option"
        /\ NoOptionInOption(res.schema)

\* C2 witness: an Optional group with an Optional field has been inferred.
C2_Witness ==
    /\ op = "Value::parse"
    /\ arg = Some("Optional")
    /\ res.r = "Ok"
    /\ res.schema.s = "Option"
    /\ res.schema.inner.s = "Group"
    /\ \E i \in 1..Len(res.schema.inner.fields) :
          res.schema.inner.fields[i].s = "Option"

\* C3: a node accepted with outer repetition Repeated yields, from
\* Value::parse and from List::parse alike, List(inner, Repeated) with inner
\* the schema inferred for the node with outer repetition Required.
C3_RepeatedIsBareList ==
    LET required == ValueParse(node, Some("Required"))
    IN  /\ (op = "Value::parse" /\ arg = Some("Repeated") /\ res.r = "Ok") =>
              /\ required.r = "Ok"
              /\ res.schema = ValueList(ListSchema(required.schema, ListTypeRepeated))
        /\ (op = "List::parse" /\ arg = Some("Repeated") /\ res.r = "Ok") =>
              /\ required.r = "Ok"
              /\ res.schema = ListSchema(required.schema, ListTypeRepeated)

\* C3 witness: List::parse has accepted a repeated List-annotated group, the
\* element of the bare list being a list itself.
C3_Witness ==
    /\ op = "List::parse"
    /\ arg = Some("Repeated")
    /\ res.r = "Ok"
    /\ res.schema.ty = ListTypeRepeated
    /\ res.schema.elem.s = "List"

\* C4 as claimed: with outer repetition None inference succeeds on a group
\* with fields that Required accepts, and returns the same schema.
C4_NonePassesThrough ==
    LET required == ValueParse(node, Some("Required"))
    IN  (op = "Value::parse" /\ arg = None /\ is_group(node)
            /\ node.logical = "None" /\ Len(node.fields) > 0
            /\ required.r = "Ok") =>
          res.r = "Ok" /\ res.schema = required.schema

\* C4 as amended: with outer repetition None, Value::parse returns the
\* "Can't parse value" error for every node and never a schema.
C4_NoneIsRejected ==
    (op = "Value::parse" /\ arg = None) => res = Err("Can't parse value")

\* C4 witness: a group with fields, which Required accepts, has been
\* rejected with outer repetition None.
C4_Witness ==
    /\ op = "Value::parse"
    /\ arg = None
    /\ is_group(node)
    /\ Len(node.fields) > 0
    /\ ValueParse(node, Some("Required")).r = "Ok"
    /\ res.r = "Err"

\* A group annotated List or Map whose wrapper is malformed: it does not
\* have exactly one child, or that child is not Repeated.
MalformedWrapper(t) ==
    /\ is_group(t)
    /\ t.logical \in {"List", "Map"}
    /\ ~(Len(t.fields) = 1 /\ t.fields[1].repetition = "Repeated")

C6_IntervalRejected ==
    (Parsed("Value::parse") /\ is_primitive(node) /\ node.logical = "Interval") =>
        res.r = "Err"

\* A List-annotated group with exactly one child, of repetition Repeated.
ListShaped(t) ==
    /\ is_group(t)
    /\ t.logical = "List"
    /\ Len(t.fields) = 1
    /\ t.fields[1].repetition = "Repeated"

\* Its child is a group with exactly one field, named neither "array" nor
\* "<outer name>_tuple".
ThreeLevelShaped(t) ==
    /\ ListShaped(t)
    /\ is_group(t.fields[1])
    /\ Len(t.fields[1].fields) = 1
    /\ t.fields[1].name \notin {"array", t.name \o "_tuple"}

\* Its child is the element.
LegacyShaped(t) == ListShaped(t) /\ ~ThreeLevelShaped(t)

\* The ListSchema inferred for the node: the result of List::parse called
\* with Required, or what Value::parse returns below the wrapper of the
\* repetition.
InferredList ==
    IF op = "List::parse" THEN res.schema
    ELSE LET core == Unlift(res.schema, arg[1])
         IN  ListSchema(core.elem, core.ty)

ListInferred ==
    \/ Parsed("Value::parse")
    \/ op = "List::parse" /\ arg = Some("Required")

\* C7: a List-annotated group with one Repeated child that is a group of
\* exactly one field, named neither "array" nor "<outer name>_tuple", is
\* inferred as List(element, List(l, e)): element the schema of the
\* grandchild parsed with its own repetition, l absent exactly for the child
\* name "list", e absent exactly for the grandchild name "element".
C7_ThreeLevelList ==
    (ListInferred /\ ThreeLevelShaped(node)) =>
        LET child == node.fields[1]
            grandchild == child.fields[1]
            element == ValueParse(grandchild, Some(grandchild.repetition))
        IN  /\ res.r = "Ok" <=> element.r = "Ok"
            /\ res.r = "Ok" =>
                  /\ op = "Value::parse" => Unlift(res.schema, arg[1]).s = "List"
                  /\ InferredList.elem = element.schema
                  /\ InferredList.ty.t = "List"
                  /\ InferredList.ty.list_name = None <=> child.name = "list"
                  /\ InferredList.ty.list_name # None =>
                        InferredList.ty.list_name = Some(child.name)
                  /\ InferredList.ty.element_name = None
                        <=> grandchild.name = "element"
                  /\ InferredList.ty.element_name # None =>
                        InferredList.ty.element_name = Some(grandchild.name)

\* C7 witness: a three-level list whose child is named "element" and whose
\* grandchild is named "list" has been inferred by Value::parse, both names
\* recorded.
C7_Witness ==
    /\ Parsed("Value::parse")
    /\ ThreeLevelShaped(node)
    /\ res.r = "Ok"
    /\ InferredList.ty = ListTypeList(Some("element"), Some("list"))
    /\ InferredList.elem.s = "Option"

\* C8: a List-annotated group whose single Repeated child is itself the
\* element is inferred as List(element, ListCompat(child name)) with one
\* level of list: element is the schema of the child as a single element,
\* that is as inferred with Required, and no List.
C8_LegacyListOneLevel ==
    (ListInferred /\ LegacyShaped(node) /\ res.r = "Ok") =>
        LET child == node.fields[1]
            element == ValueParse(child, Some("Required"))
        IN  /\ InferredList.ty = ListTypeCompat(child.name)
            /\ element.r = "Ok"
            /\ InferredList.elem = element.schema
            /\ InferredList.elem.s # "List"

\* The columns of a type tree by the conventions of the file format: the
\* path of names, the number of Optional or Repeated nodes on it (maximum
\* definition level) and the number of Repeated nodes on it (maximum
\* repetition level), for each leaf in order.
RECURSIVE Columns(_, _, _, _)
RECURSIVE ColumnsOf(_, _, _, _, _)
Columns(t, path, def_level, rep_level) ==
    LET p == Append(path, t.name)
        d == IF t.repetition \in {"Optional", "Repeated"}
             THEN def_level + 1 ELSE def_level
        rp == IF t.repetition = "Repeated" THEN rep_level + 1 ELSE rep_level
    IN  IF is_primitive(t) THEN <<Call(p, d, rp)>>
        ELSE ColumnsOf(t.fields, 1, p, d, rp)

ColumnsOf(fields, i, path, def_level, rep_level) ==
    IF i > Len(fields) THEN << >>
    ELSE Columns(fields[i], path, def_level, rep_level)
            \o ColumnsOf(fields, i + 1, path, def_level, rep_level)

\* The calls of the leaf readers of a reader tree, in order.
RECURSIVE LeafCalls(_)
RECURSIVE LeafCallsOf(_, _)
LeafCalls(reader) ==
    CASE reader.rd = "Leaf" -> <<reader.call>>
      [] reader.rd \in {"Option", "Repeated"} -> LeafCalls(reader.reader)
      [] reader.rd = "Map" ->
            LeafCalls(reader.key_reader) \o LeafCalls(reader.value_reader)
      [] reader.rd = "Group" -> LeafCallsOf(reader.readers, 1)
      [] OTHER -> << >>

LeafCallsOf(readers, i) ==
    IF i > Len(readers) THEN << >>
    ELSE LeafCalls(readers[i].reader) \o LeafCallsOf(readers, i + 1)

Levels(calls) ==
    [i \in 1..Len(calls) |-> <<calls[i].def_level, calls[i].rep_level>>]

Paths(calls) == [i \in 1..Len(calls) |-> calls[i].path]

\* The type tree as a field of the root, its parent path empty.
NodeColumns == Columns(node, << >>, 0, 0)

\* The reader of the schema inferred for the node with its own repetition.
FieldReaderBuilt == op = "Value::reader" /\ arg = Some(node.repetition)

\* C9: the levels passed to each leaf reader, when the reader tree is built
\* from the schema inferred for a field, are the maximum definition and
\* repetition levels of the leaf's column.
C9_LeafLevels ==
    FieldReaderBuilt => Levels(LeafCalls(rdr.rdr)) = Levels(NodeColumns)

\* C10: inference followed by reader construction reproduces the column
\* paths: the element reader of a three-level list is built under the
\* list's path with the names of the child and of the grandchild appended,
\* that of a legacy list with the name of the child appended, that of a bare
\* repeated field under the path of the field; every leaf reader is built
\* under the path of its column.
C10_ColumnPaths ==
    /\ (op = "List::reader" /\ arg = Some("Required")) =>
          /\ ThreeLevelShaped(node) =>
                rdr.rdr.call.path
                    = <<node.name, node.fields[1].name,
                        node.fields[1].fields[1].name>>
          /\ LegacyShaped(node) =>
                rdr.rdr.call.path = <<node.name, node.fields[1].name>>
    /\ (op = "List::reader" /\ arg = Some("Repeated")) =>
          rdr.rdr.call.path = <<node.name>>
    /\ op \in {"List::reader", "Value::reader"} =>
          Paths(LeafCalls(rdr.rdr)) = Paths(NodeColumns)

\* C10 witness: the reader of a three-level list whose child is named
\* "list" and whose grandchild is not named "element" has been built.
C10_Witness ==
    /\ op = "List::reader"
    /\ arg = Some("Required")
    /\ ThreeLevelShaped(node)
    /\ res.schema.ty = ListTypeList(None, Some("a"))
    /\ rdr.rdr.call.path = <<node.name, "list", "a">>

\* ------------------------------------------------------------------------
\* The column-path stack
\* ------------------------------------------------------------------------

ReaderOps == {"Value::reader", "List::reader", "Group::reader", "Box::reader"}

\* The paths construction is entered with: the empty stack included.
InitialPaths == {<< >>, <<"r">>, <<"r", "s">>}

\* The constructor of the reader that op names.
Construct(o, schema, path) ==
    CASE o = "Value::reader" -> ValueReader(schema, path, 0, 0)
      [] o = "List::reader" -> ListReader(schema, path, 0, 0)
      [] o = "Group::reader" -> GroupReader(schema, path, 0, 0)
      [] o = "Box::reader" -> BoxReader(schema, path, 0, 0)

Balanced(built, path) == built.path = path /\ ~built.underflow

\* C11: when construction of a List, Group, Box or Value reader returns, the
\* path stack holds exactly the segments it held on entry, whatever the
\* initial path, and no pop was performed on an empty stack.
C11_PathBalance ==
    op \in ReaderOps =>
        /\ Balanced(rdr, <<res.name>>)
        /\ \A path \in InitialPaths :
              Balanced(Construct(op, res.schema, path), path)

RECURSIVE Pushes(_)
\* The deepest column path a reader was built under.
Pushes(reader) ==
    CASE reader.rd = "Leaf" -> Len(reader.call.path)
      [] reader.rd \in {"Option", "Repeated", "Box"} -> Pushes(reader.reader)
      [] reader.rd = "Group" ->
            MaxOf({0} \cup {Pushes(reader.readers[i].reader) :
                               i \in 1..Len(reader.readers)})
      [] reader.rd = "Map" ->
            MaxOf({Pushes(reader.key_reader), Pushes(reader.value_reader)})

\* A reader built two pushes below the path of one segment it was entered
\* with.
C11_Witness ==
    /\ op \in ReaderOps
    /\ Pushes(rdr.rdr) >= 3
    /\ Balanced(rdr, <<res.name>>)
    /\ Balanced(Construct(op, res.schema, << >>), << >>)
\* ------------------------------------------------------------------------
\* Group schemas
\* ------------------------------------------------------------------------

RECURSIVE GroupsIn(_)
\* The group schemas of a ValueSchema, nested ones included.
GroupsIn(schema) ==
    CASE schema.s = "Group" ->
            {GroupSchema(schema.fields, schema.lookup)} \cup
            UNION {GroupsIn(schema.fields[i]) : i \in 1..Len(schema.fields)}
      [] schema.s \in {"Option", "Box"} -> GroupsIn(schema.inner)
      [] schema.s = "List" -> GroupsIn(schema.elem)
      [] schema.s = "Map" -> GroupsIn(schema.key) \cup GroupsIn(schema.value)
      [] OTHER -> {}

\* The group schemas of the schema inference returned.
InferredGroups ==
    CASE op = "Group::parse" -> GroupsIn(ValueGroup(res.schema))
      [] op = "List::parse" -> GroupsIn(ValueList(res.schema))
      [] OTHER -> GroupsIn(res.schema)

\* Names pairwise distinct, as many as field schemas, the k-th inserted
\* mapped to ordinal k (from 0).
OrdinalsInOrder(g) ==
    /\ Len(g.lookup) = Len(g.fields)
    /\ \A i, j \in 1..Len(g.lookup) :
          g.lookup[i].name = g.lookup[j].name => i = j
    /\ \A k \in 1..Len(g.lookup) : g.lookup[k].ord = k - 1

\* The names of the map are the names of the node's fields, in declaration
\* order.
DeclarationOrder(g, type) ==
    /\ Len(g.lookup) = Len(type.fields)
    /\ \A k \in 1..Len(g.lookup) : g.lookup[k].name = type.fields[k].name

ParseOps == {"Value::parse", "List::parse", "Group::parse", "Box::parse"}

\* C12: every Group schema returned by inference has pairwise distinct field
\* names, as many names as field schemas, and maps the k-th field in
\* declaration order to ordinal k.
C12_GroupOrdinals ==
    (op \in ParseOps /\ res.r = "Ok") =>
        /\ \A g \in InferredGroups : OrdinalsInOrder(g)
        /\ op = "Group::parse" => DeclarationOrder(res.schema, node)
        /\ (op = "Value::parse" /\ arg = Some("Required")
              /\ res.schema.s = "Group") =>
                DeclarationOrder(res.schema, node)

\* Group::parse of a group of two fields, one of them a group of two fields.
C12_Witness ==
    /\ op = "Group::parse"
    /\ res.r = "Ok"
    /\ Len(res.schema.lookup) = 2
    /\ res.schema.lookup[2] = [name |-> "b", ord |-> 1]
    /\ \E g \in InferredGroups : g # res.schema /\ Len(g.lookup) = 2
\* ------------------------------------------------------------------------
\* Group values
\* ------------------------------------------------------------------------

\* The name map sends each name to an ordinal below the number of values.
OrdinalsInRange(group) ==
    \A i \in 1..Len(group.names) : group.names[i].ord < Len(group.values)

\* C13: for a Group whose name map sends each name to an ordinal below the
\* number of values, get(n) and group[n] return the same value as group[i]
\* for every field name n mapped to ordinal i, and get returns None for a
\* name that is not a field.
C13_NameAndOrdinalAgree ==
    (op = "Group::get" /\ OrdinalsInRange(this)) =>
        /\ \A i \in 1..Len(this.names) :
              this.names[i].name = arg[1] =>
                 /\ res.r = "Ok" /\ res.value # None
                 /\ IndexUsize(this, this.names[i].ord) = Returned(res.value[1])
                 /\ IndexStr(this, arg[1]) = Returned(res.value[1])
        /\ arg[1] \notin LookupNames(this.names) => res = Returned(None)

\* get of the second name of a group whose second name is mapped to the
\* first value.
C13_Witness ==
    /\ op = "Group::get"
    /\ OrdinalsInRange(this)
    /\ Len(this.names) = 2
    /\ Len(this.values) = 2
    /\ this.names[2].name = arg[1]
    /\ this.names[2].ord = 0
    /\ this.values[1] # this.values[2]
    /\ res = Returned(Some(this.values[1]))
\* ------------------------------------------------------------------------
\* Conversion and downcast
\* ------------------------------------------------------------------------

RECURSIVE HasOptionOfOption(_)
\* Option<Option<T>>, or Option<Value>, somewhere in the type.
HasOptionOfOption(ty) ==
    \/ ty.t = "Option" /\ ty.of[1].t \in {"Option", "Value"}
    \/ \E i \in 1..Len(ty.of) : HasOptionOfOption(ty.of[i])

\* The same value of the same type: the entries of two maps as sets.
SameTyped(a, b) ==
    /\ a.ty = b.ty
    /\ a.prim = b.prim
    /\ IF a.ty.t = "Map"
       THEN {a.items[i] : i \in 1..Len(a.items)}
              = {b.items[i] : i \in 1..Len(b.items)}
       ELSE a.items = b.items

\* C14: conversion into Value followed by downcast is the identity: for
\* every primitive type T and every x of T, of List<T>, of Map<K, V> and of
\* Option<T>, Value::from(x) is a Value and its downcast to the type of x
\* returns Ok(x), same elements in the same order, same set of entries.
C14_RoundTrip ==
    /\ (op = "Value::from" /\ ~HasOptionOfOption(arg[1].ty)) => res.r = "Ok"
    /\ op = "downcast" => (res.r = "Ok" /\ SameTyped(res.value, arg[1]))

\* A map of two entries converted and downcast.
C14_Witness ==
    /\ op = "downcast"
    /\ arg[1].ty.t = "Map"
    /\ Len(arg[1].items) = 2
    /\ this.kind = "Map"
    /\ res = Returned(arg[1])

\* ------------------------------------------------------------------------
\* Accessors
\* ------------------------------------------------------------------------

\* The suffixes of the accessors, in the order of the variants they are
\* named after.
SnakeCase ==
    <<"bool", "u8", "i8", "u16", "i16", "u32", "i32", "u64", "i64", "f32",
      "f64", "date", "time", "timestamp", "decimal", "byte_array", "bson",
      "string", "json", "enum", "list", "map", "group", "option">>

\* The variant X of is_X, as_X, into_X.
VariantNamed(x) == Variants[CHOOSE i \in 1..Len(SnakeCase) : SnakeCase[i] = x]

\* C15: is_X(v) is true exactly when v is the X variant, so exactly one is_X
\* is true of v; as_X(v) and into_X(v) return the payload of v when v is the
\* X variant and otherwise the error that names X and describes v.
C15_Accessors ==
    /\ op = "is" =>
          /\ res.value = (this.kind = VariantNamed(arg[1]))
          /\ Cardinality({x \in Accessors : Is(x, this)}) = 1
    /\ op \in {"as", "into"} =>
          IF this.kind = VariantNamed(arg[1])
          THEN res = Returned(Payload(this))
          ELSE /\ res.r = "Err"
               /\ res.msg = "Cannot access as " \o arg[1]
               /\ res.actual = this

\* into_u8 of an I8 is the error.
C15_Witness ==
    /\ op = "into"
    /\ arg = <<"u8">>
    /\ this = Prim("I8", 1)
    /\ res = CannotAccess(this, "u8")

\* ------------------------------------------------------------------------
\* Typed equality
\* ------------------------------------------------------------------------

\* The variant a value of the type converts into.
VariantOf(ty) ==
    IF ty.t \in {"List", "Map", "Option", "Group"} THEN ty.t
    ELSE FromPrimitive(ty.t)

\* C16: comparing a Value v with a concrete value x of shape T never
\* aborts, and returns false whenever v is not the variant matching T.
C16_EqNeverAborts ==
    (op = "Value::eq" /\ arg[1].ty.t # "Value") =>
        /\ res.r = "Ok"
        /\ this.kind # VariantOf(arg[1].ty) => res.value = FALSE

\* ------------------------------------------------------------------------
\* Options
\* ------------------------------------------------------------------------

RECURSIVE NoOptionInOptionValue(_)
\* No Option whose Some payload is an Option, anywhere in the Value.
NoOptionInOptionValue(value) ==
    CASE value.kind = "Option" ->
            \A i \in 1..Len(value.items) :
               /\ value.items[i].kind # "Option"
               /\ NoOptionInOptionValue(value.items[i])
      [] value.kind \in {"List", "Group"} ->
            \A i \in 1..Len(value.items) : NoOptionInOptionValue(value.items[i])
      [] value.kind = "Map" ->
            \A i \in 1..Len(value.items) :
               /\ NoOptionInOptionValue(value.items[i].key)
               /\ NoOptionInOptionValue(value.items[i].value)
      [] OTHER -> TRUE

\* What the claim says of the conversion of the option x, y being the
\* conversion of the value in its Some.
OptionConverted(x, y, result) ==
    /\ (y.r = "Ok" /\ y.value.kind # "Option") =>
          result = Returned(OptionValue(Some(y.value)))
    /\ (y.r = "Ok" /\ y.value.kind = "Option") => result.r = "Panic"

\* C17: converting Option<T> into Value yields Value::Option(None) for None
\* and Value::Option(Some(y)) for Some(x), y the conversion of x; no
\* conversion produces a Value::Option whose Some payload is an Option:
\* converting Some(x) where x converts to a Value::Option is rejected, the
\* conversion aborting, and is neither flattened nor nested.
C17_OptionConversion ==
    op = "Value::from" =>
        /\ res.r = "Ok" => NoOptionInOptionValue(res.value)
        /\ arg[1].ty.t = "Option" =>
              IF arg[1].items = None THEN res = Returned(OptionValue(None))
              ELSE OptionConverted(arg[1], From(arg[1].items[1]), res)

\* Some(Some(1)) is rejected.
C17_Witness ==
    /\ op = "Value::from"
    /\ arg[1] = TOption(TyOption(TyI32),
                        Some(TOption(TyI32, Some(TPrim("i32", 1)))))
    /\ res.r = "Panic"

\* ------------------------------------------------------------------------
\* Hash
\* ------------------------------------------------------------------------

U8Max == 255

\* C18: the 24 variants write 24 pairwise distinct kind tag bytes as the
\* first thing fed to the hasher, so the sequences fed by two Values of
\* different variants differ, payload-free variants included.
C18_TagsDistinct ==
    /\ \A k \in VariantSet : Tag(k) \in 0..U8Max
    /\ \A k1, k2 \in VariantSet : Tag(k1) = Tag(k2) => k1 = k2
    /\ op = "Value::hash" =>
          /\ res.value[1] = Tag(this.kind)
          /\ \A w \in Values : w.kind # this.kind => HashFeed(w) # res.value

\* The hash of a map of two entries: the tag alone, that of no other variant.
C18_Witness ==
    /\ op = "Value::hash"
    /\ this.kind = "Map"
    /\ Len(this.items) = 2
    /\ res.value = <<Tag("Map")>>
    /\ \A k \in VariantSet \ {"Map"} : Tag(k) # res.value[1]

\* C19: hashing an F32, F64, Decimal, Map or Group value feeds the hasher the
\* kind tag only, so any two values of one such variant hash alike, while
\* every other variant feeds its tag followed by its payload.
C19_PayloadFree ==
    op = "Value::hash" =>
        IF this.kind \in {"F32", "F64", "Decimal", "Map", "Group"}
        THEN /\ res.value = <<Tag(this.kind)>>
             /\ \A w \in Values : w.kind = this.kind => HashFeed(w) = res.value
        ELSE /\ Len(res.value) > 1
             /\ res.value[1] = Tag(this.kind)
             /\ SubSeq(res.value, 2, Len(res.value)) = PayloadFeed(this)
             /\ \A w \in Values :
                   (w.kind = this.kind /\ w # this) => HashFeed(w) # res.value

\* The hash of a group of two fields: the tag alone.
C19_Witness ==
    /\ op = "Value::hash"
    /\ this.kind = "Group"
    /\ Len(this.items) = 2
    /\ res.value = <<Tag("Group")>>
    /\ \E w \in Values : w.kind = "Group" /\ w # this /\ HashFeed(w) = res.value
\* ------------------------------------------------------------------------
\* The atoms
\* ------------------------------------------------------------------------

\* The atom the table of the specification gives the pair (physical type,
\* logical annotation), "" for a pair that is not in it.
TableAtom(p, l) ==
    CASE p = "Boolean" /\ l = "None" -> "Bool"
      [] p = "Int32" /\ l = "Uint8" -> "U8"
      [] p = "Int32" /\ l = "Int8" -> "I8"
      [] p = "Int32" /\ l = "Uint16" -> "U16"
      [] p = "Int32" /\ l = "Int16" -> "I16"
      [] p = "Int32" /\ l = "Uint32" -> "U32"
      [] p = "Int32" /\ l \in {"Int32", "None"} -> "I32"
      [] p = "Int32" /\ l = "Date" -> "Date"
      [] p = "Int32" /\ l = "TimeMillis" -> "Time::Millis"
      [] p = "Int32" /\ l = "Decimal" -> "Decimal::Int32"
      [] p = "Int64" /\ l = "Uint64" -> "U64"
      [] p = "Int64" /\ l \in {"Int64", "None"} -> "I64"
      [] p = "Int64" /\ l = "TimeMicros" -> "Time::Micros"
      [] p = "Int64" /\ l = "TimestampMillis" -> "Timestamp::Millis"
      [] p = "Int64" /\ l = "TimestampMicros" -> "Timestamp::Micros"
      [] p = "Int64" /\ l = "Decimal" -> "Decimal::Int64"
      [] p = "Int96" /\ l = "None" -> "Timestamp::Int96"
      [] p = "Float" /\ l = "None" -> "F32"
      [] p = "Double" /\ l = "None" -> "F64"
      [] IsByteArray(p) /\ l = "Utf8" -> "String"
      [] IsByteArray(p) /\ l = "Json" -> "Json"
      [] IsByteArray(p) /\ l = "Enum" -> "Enum"
      [] IsByteArray(p) /\ l = "Bson" -> "Bson"
      [] IsByteArray(p) /\ l = "None" -> "ByteArray"
      [] IsByteArray(p) /\ l = "Decimal" -> "Decimal::Array"
      [] OTHER -> ""

\* The atom of a pair that is not in the table: by the physical type alone.
TableFallback(p) ==
    CASE p = "Boolean" -> "Bool"
      [] p = "Int32" -> "I32"
      [] p = "Int64" -> "I64"
      [] p = "Int96" -> "Timestamp::Int96"
      [] p = "Float" -> "F32"
      [] p = "Double" -> "F64"
      [] IsByteArray(p) -> "ByteArray"

\* The name of an atom of the model.
AtomName(schema) ==
    CASE schema.s \in {"Time", "Timestamp"} -> schema.s \o "::" \o schema.unit
      [] schema.s = "Decimal" -> "Decimal::" \o schema.backing
      [] OTHER -> schema.s

\* The atom records a fixed length.
RecordsLength(schema) == "len" \in DOMAIN schema /\ schema.len # None

\* What the claim says of the atom inferred for the primitive type.
AtomAsTabled(type, atom) ==
    /\ AtomName(atom) = IF TableAtom(type.physical, type.logical) # ""
                        THEN TableAtom(type.physical, type.logical)
                        ELSE TableFallback(type.physical)
    /\ RecordsLength(atom) <=> type.physical = "FixedLenByteArray"

\* C20: for every pair (physical type, logical annotation) of a primitive
\* node with a repetition, inference returns the atom given by the table,
\* for a pair not in the table the atom of the physical type alone, and the
\* atom records a fixed length exactly when the physical type is
\* FixedLenByteArray.
C20_AtomTable ==
    (op = "Value::parse" /\ arg # None) =>
        /\ res.r = "Ok"
        /\ AtomAsTabled(node, Unlift(res.schema, arg[1]))

\* ------------------------------------------------------------------------
\* The group rule
\* ------------------------------------------------------------------------

\* The schema lists the children of the type in declaration order, each
\* inferred with its own repetition, under its own name.
ChildrenInferred(type, core) ==
    /\ Len(core.fields) = Len(type.fields)
    /\ Len(core.lookup) = Len(type.fields)
    /\ \A i \in 1..Len(core.fields) :
          /\ core.lookup[i] = [name |-> type.fields[i].name, ord |-> i - 1]
          /\ Ok(type.fields[i].name, core.fields[i])
                = ValueParse(type.fields[i], Some(type.fields[i].repetition))

\* What Value::parse infers Group for: a group node on which neither the
\* list nor the map rule succeeds, its children inferred in order.
GroupOnlyByGroupRule ==
    (Parsed("Value::parse") /\ res.r = "Ok"
        /\ Unlift(res.schema, arg[1]).s = "Group") =>
        /\ is_group(node)
        /\ ListRule(node) = NoMatch
        /\ MapRule(node) = NoMatch
        /\ ChildrenInferred(node, Unlift(res.schema, arg[1]))

\* C21 as claimed: Group is inferred only for a group node with at least one
\* field that matches neither the list nor the map rule, its children
\* inferred in declaration order with their own repetitions, and a group
\* node with no fields is rejected with the unclassifiable-node error.
C21_EmptyGroupRejected ==
    /\ GroupOnlyByGroupRule
    /\ (Parsed("Value::parse") /\ is_group(node) /\ Len(node.fields) = 0) =>
          res = Err("Can't parse value")

\* C21 as amended: Group is inferred only for a group node on which neither
\* the list nor the map rule succeeds, its children inferred in declaration
\* order with their own repetitions; a group node with no fields is such a
\* node, whatever its annotation: called with a repetition, inference
\* returns for it the Group of no fields and no names, under the wrapper of
\* the repetition, and never the unclassifiable-node error.
C21_GroupRule ==
    /\ GroupOnlyByGroupRule
    /\ (Parsed("Value::parse") /\ is_group(node) /\ Len(node.fields) = 0) =>
          /\ res.r = "Ok"
          /\ Unlift(res.schema, arg[1]) = ValueGroup(GroupSchema(<< >>, << >>))

\* C21 witness: a group with no fields, held as the first of two fields of a
\* group, has been inferred as a Group inside a Group.
C21_Witness ==
    /\ op = "Value::parse"
    /\ arg = Some("Required")
    /\ is_group(node)
    /\ Len(node.fields) = 2
    /\ is_group(node.fields[1])
    /\ Len(node.fields[1].fields) = 0
    /\ node.fields[1].repetition = "Required"
    /\ res.r = "Ok"
    /\ res.schema.s = "Group"
    /\ res.schema.fields[1] = ValueGroup(GroupSchema(<< >>, << >>))

\* ------------------------------------------------------------------------
\* Display
\* ------------------------------------------------------------------------

RECURSIVE Flatten(_)
\* The concatenation of a sequence of texts.
Flatten(texts) ==
    IF texts = << >> THEN << >> ELSE Head(texts) \o Flatten(Tail(texts))

RECURSIVE PadAfterNewlines(_, _)
\* The text with four spaces after each newline that is not its last piece.
PadAfterNewlines(text, i) ==
    IF i > Len(text) THEN << >>
    ELSE <<text[i]>>
         \o (IF text[i] = Newline /\ i < Len(text) THEN <<"    ">> ELSE << >>)
         \o PadAfterNewlines(text, i + 1)

\* Between two calls a PadAdapter over a formatter that does not fail has
\* emitted the concatenation of the texts, padded after its newlines.
PaddedConcatenation ==
    (op = "PadAdapter" /\ this.fmt.fail_at = 0) =>
        this.fmt.out = PadAfterNewlines(Flatten(node), 1)

\* An iteration that does not end the call leaves less text to write.
LessLeft ==
    (op = "write_str" /\ op' = "write_str") => Len(arg'[1]) < Len(arg[1])

\* C24: the texts written through a fresh PadAdapter are emitted as their
\* concatenation with four spaces after each newline that is followed by
\* another character, and nothing before the first character or after a
\* trailing newline, however the text is split across the write_str calls;
\* each iteration of write_str shortens the text left, so each call
\* terminates.
C24_PadAdapter == []PaddedConcatenation /\ [][LessLeft]_vars

\* C24 witness: a newline has ended one call, an empty text was written, and
\* the character of a third call was padded.
C24_Witness ==
    /\ op = "PadAdapter"
    /\ this.fmt.fail_at = 0
    /\ node = << <<"a", Newline>>, << >>, <<"a", Newline>> >>
    /\ this.fmt.out = <<"a", Newline, "    ", "a", Newline>>

\* The header of a group as the specification gives it:
\* `<repetition> group <name>`, or `message <name>` without a repetition,
\* then ` (<logical>)` when a logical type is given, then ` {`.
Header(r, name, logical) ==
    (IF r = None THEN <<"message ">>
     ELSE RepetitionToString(r[1]) \o <<" group ">>)
    \o <<UnwrapOr(name, "<name>")>>
    \o (IF logical = None THEN << >>
        ELSE <<" (">> \o LogicalToString(logical[1]) \o <<")">>)
    \o <<" {">>

\* C22: for a group with no fields, new followed by finish writes exactly
\* the header and then " }" to a formatter that does not fail, and no
\* newline.
C22_EmptyGroup ==
    (op = "finish" /\ node.fields = << >> /\ this.fmt.fail_at = 0) =>
        /\ res.r = "Ok"
        /\ this.fmt.out = Header(node.r, node.name, node.logical) \o <<" }">>
        /\ \A i \in 1..Len(this.fmt.out) : this.fmt.out[i] # Newline

\* C22 witness: an optional group annotated List, without fields, has been
\* written.
C22_Witness ==
    /\ op = "finish"
    /\ node.fields = << >>
    /\ node.r = Some("Optional")
    /\ node.logical = Some("List")
    /\ this.fmt.out = <<"optional", " group ", "g", " (", "LIST", ")", " {", " }">>

RECURSIVE Spaces(_)
\* 4 * d spaces.
Spaces(d) == IF d = 0 THEN << >> ELSE <<"    ">> \o Spaces(d - 1)

RECURSIVE Rendering(_, _, _, _)
RECURSIVE FieldLines(_, _, _)
\* The fields from the i-th on, each on a new line, at nesting depth d.
FieldLines(fields, i, d) ==
    IF i > Len(fields) THEN << >>
    ELSE <<Newline>> \o Spaces(d)
         \o Rendering(fields[i].value, Some("Required"), Some(fields[i].name), d)
         \o FieldLines(fields, i + 1, d)

\* The text of a schema whose first line is at nesting depth d: a group with
\* fields has each field on a new line at depth d + 1 and is closed by a
\* newline and `}` at depth d.
Rendering(value, r, name, d) ==
    IF value.k = "Leaf"
    THEN RepetitionToString(r[1]) \o <<" ", value.type, " ", name[1], ";">>
    ELSE Header(r, name, value.logical)
         \o (IF value.fields = << >> THEN <<" }">>
             ELSE FieldLines(value.fields, 1, d + 1)
                  \o <<Newline>> \o Spaces(d) \o <<"}">>)

RECURSIVE NestingDepth(_)
\* The nesting depth of the deepest field.
NestingDepth(value) ==
    IF value.fields = << >> THEN 0
    ELSE 1 + MaxOf({ NestingDepth(value.fields[i].value) :
                        i \in 1..Len(value.fields) })

\* C23: a group written through nested builders to a formatter that does
\* not fail has every field on a new line, every line of a field at nesting
\* depth d after exactly 4 * d spaces, and, when it has fields, its closing
\* `}` on a new line at the indentation of its own header.
C23_Indentation ==
    (op = "finish" /\ this.fmt.fail_at = 0) =>
        this.fmt.out = Rendering(node, node.r, node.name, 0)

\* C23 witness: a group with fields three levels deep has been written.
C23_Witness ==
    /\ op = "finish"
    /\ this.fmt.fail_at = 0
    /\ NestingDepth(node) = 3
    /\ Len(node.fields) = 2
    /\ \E i \in 1..Len(this.fmt.out) :
          SubSeq(this.fmt.out, i, i + 4)
             = <<Newline, "    ", "    ", "    ", "required">>

\* A write of the formatter has failed.
Failed == this.fmt.fail_at # 0 /\ this.fmt.calls >= this.fmt.fail_at

\* The builder holds an error exactly when a write has failed, the failed
\* write is the last call made on the formatter, and finish returns the
\* result held.
Latched ==
    op \in {"DisplaySchemaGroup", "finish"} =>
        /\ this.result = (IF Failed THEN "Err" ELSE "Ok")
        /\ Failed => this.fmt.calls = this.fmt.fail_at
        /\ op = "finish" => res.r = this.result

\* A call on a builder that holds an error leaves the formatter as it is.
NothingMoreWritten ==
    (op = "DisplaySchemaGroup" /\ this.result = "Err") => this'.fmt = this.fmt

\* C27: once a write to the formatter has failed in new, field or finish, no
\* later field or finish writes anything more to the formatter and finish
\* returns the error; when no write fails finish returns Ok.
C27_ErrorLatched == []Latched /\ [][NothingMoreWritten]_vars

\* C27 witness: the newline of the first field has failed, a second field
\* was added, and finish has returned the error with nothing more written.
C27_Witness ==
    /\ op = "finish"
    /\ Len(node.fields) = 2
    /\ node.r = None
    /\ node.logical = None
    /\ this.fmt.fail_at = 4
    /\ this.fmt.calls = 4
    /\ this.fmt.out = <<"message ", "g", " {">>
    /\ res.r = "Err"

\* ------------------------------------------------------------------------
\* The reader of a group
\* ------------------------------------------------------------------------

\* The levels a group reader is built with.
DrawnLevels == {0, 1, I16Max}

\* The name the map of the schema gives the k-th field.
FieldName(schema, k) ==
    schema.lookup[CHOOSE i \in 1..Len(schema.lookup) :
                     schema.lookup[i].ord = k - 1].name

\* The group reader built has one child per field of the schema, the k-th
\* built from the k-th field schema under the path with the k-th name
\* appended, at the levels of the group; it holds the name map of the schema
\* and the path is returned as it was given.
OneReaderPerField(schema, built, path, def_level, rep_level) ==
    /\ built.rdr.rd = "Group"
    /\ Len(built.rdr.readers) = Len(schema.fields)
    /\ \A k \in 1..Len(schema.fields) :
          /\ built.rdr.readers[k].call
                = Call(Append(path, FieldName(schema, k)), def_level, rep_level)
          /\ built.rdr.readers[k].reader
                = ValueReader(schema.fields[k],
                              Append(path, FieldName(schema, k)),
                              def_level, rep_level).rdr
    /\ built.rdr.fields = schema.lookup
    /\ built.path = path

\* C25: Group::reader builds exactly one child reader per field, in
\* declaration order, the k-th from the k-th field schema with the k-th
\* field name pushed on the column path while that child is built, at the
\* def_level and rep_level the group received, and the reader's field-name
\* map is the schema's.
C25_GroupReader ==
    op = "Group::reader" =>
        /\ OneReaderPerField(res.schema, rdr, <<res.name>>, 0, 0)
        /\ \A path \in InitialPaths, def_level, rep_level \in DrawnLevels :
              OneReaderPerField(res.schema,
                                GroupReader(res.schema, path, def_level,
                                            rep_level),
                                path, def_level, rep_level)

\* C25 witness: the reader of a group of two fields, the first a group, has
\* been built: the second child under the path of the group with its own
\* name alone appended.
C25_Witness ==
    /\ op = "Group::reader"
    /\ Len(res.schema.fields) = 2
    /\ res.schema.fields[1].s = "Group"
    /\ Len(res.schema.fields[1].fields) > 0
    /\ Len(rdr.rdr.readers) = 2
    /\ rdr.rdr.readers[2].call.path = <<res.name, "b">>

\* ------------------------------------------------------------------------
\* Box
\* ------------------------------------------------------------------------

\* The result of Box<T>::parse beside that of T::parse: both succeed, with
\* one name and the schema of T inside the BoxSchema, or both fail alike.
ParsePassesThrough(boxed, inner) ==
    /\ boxed.r = "Ok" <=> inner.r = "Ok"
    /\ boxed.r = "Ok" =>
          /\ boxed.name = inner.name
          /\ boxed.schema.s = "Box"
          /\ boxed.schema.inner = inner.schema
    /\ boxed.r # "Ok" => boxed = inner

\* The reader of Box<T> beside that of T built from the inner schema with
\* the same path and levels: it holds that reader, and nothing else has
\* touched the path.
ReaderPassesThrough(boxed, inner) ==
    /\ boxed.rdr.rd = "Box"
    /\ boxed.rdr.reader = inner.rdr
    /\ boxed.path = inner.path
    /\ boxed.underflow = inner.underflow

\* C26: Box<T>::parse succeeds exactly when T::parse does, with the same
\* name and inner schema, and fails as T::parse fails; Box<T>::reader builds
\* the reader of T with the path and the levels it was given, adding no
\* path segment and no level.
C26_BoxPassThrough ==
    /\ op = "Box::parse" =>
          ParsePassesThrough(res, ValueParse(node, arg))
    /\ op = "Box::reader" =>
          /\ ReaderPassesThrough(rdr, ValueReader(res.schema.inner,
                                                  <<res.name>>, 0, 0))
          /\ \A path \in InitialPaths, def_level, rep_level \in DrawnLevels :
                ReaderPassesThrough(
                    BoxReader(res.schema, path, def_level, rep_level),
                    ValueReader(res.schema.inner, path, def_level, rep_level))

\* C26 witness: the reader of a boxed optional group with a field has been
\* built.
C26_Witness ==
    /\ op = "Box::reader"
    /\ arg = Some("Optional")
    /\ res.schema.inner.s = "Option"
    /\ res.schema.inner.inner.s = "Group"
    /\ rdr.rdr.reader.rd = "Option"
    /\ rdr.rdr.reader.reader.rd = "Group"
    /\ Len(rdr.rdr.reader.reader.readers) > 0

\* ------------------------------------------------------------------------
\* Typed equality and conversion
\* ------------------------------------------------------------------------

C29_GroupParseAgrees ==
    LET value == ValueParse(node, Some("Required"))
    IN  op = "Group::parse" =>
          /\ (arg = Some("Required") /\ value.r = "Ok"
                /\ value.schema.s = "Group") =>
                /\ res.r = "Ok"
                /\ res.name = value.name
                /\ res.schema.fields = value.schema.fields
                /\ res.schema.lookup = value.schema.lookup
          /\ (~is_group(node) \/ arg # Some("Required")) =>
                res = Err("Can't parse Group")

\* C29 witness: Group::parse has returned the schema of a group of two
\* fields, the first a group, that Value::parse classifies as Group.
C29_Witness ==
    /\ op = "Group::parse"
    /\ arg = Some("Required")
    /\ ValueParse(node, Some("Required")).r = "Ok"
    /\ ValueParse(node, Some("Required")).schema.s = "Group"
    /\ res.r = "Ok"
    /\ Len(res.schema.fields) = 2
    /\ res.schema.fields[1].s = "Group"
    /\ res.schema.lookup[2].ord = 1

\* ------------------------------------------------------------------------
\* Hash and equality
\* ------------------------------------------------------------------------

\* C30: for any two Values a and b with a == b, what a feeds to the hasher
\* and what b feeds are the same sequence.
C30_HashConsistent ==
    op = "Value::hash" =>
        \A b \in Values : ValueEq(this, b) => HashFeed(b) = res.value

\* C30 witness: a map of two entries has been hashed, and the map that holds
\* its entries in the other order, equal to it, feeds the same.
C30_Witness ==
    /\ op = "Value::hash"
    /\ this.kind = "Map"
    /\ Len(this.items) = 2
    /\ \E b \in Values :
          /\ b # this
          /\ ValueEq(this, b)
          /\ HashFeed(b) = res.value
====
